---- MODULE Spec2Model ----
(***************************************************************************)
(* Model of the OVS forwarder's connection lifecycle orchestrator          *)
(* (Nordix/networkservicemesh, forwarder/ovs-forwarder/pkg/ovsforwarder):  *)
(* Request/Close handlers for local and remote cross-connects, the device  *)
(* picker, the VF attach/detach code, the VXLAN tunnel registry and the    *)
(* port-binding cache, together with the host state they act on (OVS       *)
(* bridge ports and flows, VF links, veth pairs, pod network namespaces).  *)
(***************************************************************************)
EXTENDS Integers, Sequences, FiniteSets, TLC

(***************************************************************************)
(* Bounds of the model                                                     *)
(***************************************************************************)
\* operations (Request or Close calls) started in one behaviour
MaxOps == 4
\* failures of external primitives injected in one behaviour
MaxFaults == 1
\* pod namespaces that may vanish in one behaviour
MaxPodDeletes == 1
\* createVXLANInterface calls per tunnel name when the registry is driven alone
MaxAcquires == 4
\* length of a candidate list when the picker is driven alone
MaxCands == 3
\* Request and Close calls when the endpoint's device pool is driven alone
MaxPoolCalls == 4
\* calls of namespace-switching functions when these are driven alone
MaxNsCalls == 2
\* calls of the tunnel registry when its callers run concurrently
MaxRegCalls == 4
\* Request and Close calls when the locks of the calls are driven alone
MaxLockCalls == 4
\* answers of the bridge to ofport queries when the lookup is driven alone
MaxAnswers == 6
\* largest retry budget when representor discovery is driven alone
MaxRetries == 4

(***************************************************************************)
(* The universe: connection identifiers, devices, namespaces, peers        *)
(***************************************************************************)
ConnIDs == {"c1", "c2"}
Devices == {"d1", "d2"}
Namespaces == {"n1", "n2"}
HostNs == "host"
Roles == {"src", "dst", "rem"}
\* remote peers, as IPv4 octets
PeerA == <<10, 0, 0, 5>>
PeerB == <<10, 0, 0, 6>>
NoPeer == <<0, 0, 0, 0>>

\* "no entry" of a Go map lookup that yields a string / the zero string
Absent == "absent"
Empty == ""

(***************************************************************************)
(* Go maps as functions with a finite domain                               *)
(***************************************************************************)
EmptyMap == [k \in {} |-> 0]
Has(m, k) == k \in DOMAIN m
\* m[k] of Go: the zero value when the key is missing
Get(m, k, zero) == IF k \in DOMAIN m THEN m[k] ELSE zero
Put(m, k, v) == [x \in DOMAIN m \cup {k} |-> IF x = k THEN v ELSE m[x]]
Del(m, k) == [x \in DOMAIN m \ {k} |-> m[x]]

(***************************************************************************)
(* Names derived from identifiers                                          *)
(***************************************************************************)
srcPrefix == "tapsrc"
dstPrefix == "tapdst"
remPrefix == "tap_"
\* the DevIDMap key of a role of a connection: "src-"+id, "dst-"+id, "rem-"+id
DevKey(role, c) == role \o "-" \o c
\* the OVS-side veth name of a role of a connection
VethPort(role, c) ==
    IF role = "src" THEN srcPrefix \o c
    ELSE IF role = "dst" THEN dstPrefix \o c
    ELSE remPrefix \o c
\* the representor port sriovnet resolves for a device
Rep(d) == "rep_" \o d
\* the name a VF link has before any connection renames it
OrigName(d) == "vf_" \o d
\* the interface name a connection asks for (common.InterfaceNameKey)
IfName(role, c) == "nsm_" \o role \o "_" \o c
\* "v" + the peer IP's text with its dots removed
TunnelName(ip) ==
    "v" \o ToString(ip[1]) \o ToString(ip[2]) \o ToString(ip[3]) \o ToString(ip[4])

\* the parameters of an endpoint's connection that the interface code reads:
\* kernel.PciAddress (Empty: none) and the inode of the pod namespace
Conn(pci, ns) == [PciAddress |-> pci, NetNsInode |-> ns]

\* GetLocalConnectionConfig(conn, deviceID, ovsPortName, isDst) as its callers
\* use it: the device is the one handed in, the namespace and the interface
\* name are those of the connection
GetLocalConnectionConfig(conn, deviceID, role, c) ==
    [PciAddress |-> deviceID, TargetNetns |-> conn.NetNsInode,
     Name |-> IfName(role, c)]

\* the VXLAN network identifier a connection's remote mechanism carries
Vni(c) == IF c = "c1" THEN 42 ELSE 43

(***************************************************************************)
(* Cross-connect descriptors.  srcM / dstM are the mechanisms of the two   *)
(* endpoints (their type and whether the endpoint is remote); srcC / dstC  *)
(* are the kernel.PciAddresses candidate lists (<<>>: the parameter is not *)
(* present) and srcNs / dstNs the pod namespaces of the endpoints; peer is *)
(* the IP address of the remote end of a remote cross-connect; valid is    *)
(* the answer of crossConnect.IsValid().  Every descriptor has a mechanism *)
(* the forwarder supports, so that SanityCheckConnectionType passes.       *)
(***************************************************************************)
Mechanism(type, remote) == [type |-> type, remote |-> remote]
KernelLocal == Mechanism("kernel", FALSE)
VxlanRemote == Mechanism("vxlan", TRUE)
\* a remote mechanism GetTunnelParameters does not know
UnknownRemote == Mechanism("unknown", TRUE)
\* a local mechanism that is not the kernel mechanism
MemifLocal == Mechanism("memif", FALSE)

XCon(srcM, dstM, srcC, dstC, srcNs, dstNs, peer) ==
    [srcM |-> srcM, dstM |-> dstM, srcC |-> srcC, dstC |-> dstC,
     srcNs |-> srcNs, dstNs |-> dstNs, peer |-> peer, valid |-> TRUE]

\* ovsforwarder.go, connectOrDisconnect: both mechanisms kernel, else remote
Path(xc) ==
    IF xc.srcM.type = "kernel" /\ xc.dstM.type = "kernel" THEN "local"
    ELSE "remote"

\* the other end is not looked at once one end is found remote
Direction_OneEnd(xc) ==
    IF xc.srcM.remote THEN "incoming"
    ELSE IF xc.dstM.remote THEN "outgoing"
    ELSE "invalid"

\* part_002, handleRemoteConnection: which end is the remote one
Direction(xc) ==
    IF xc.srcM.remote /\ ~xc.dstM.remote THEN "incoming"
    ELSE IF ~xc.srcM.remote /\ xc.dstM.remote THEN "outgoing"
    ELSE "invalid"

\* the localConnection / remoteConnection arguments of handleConnection
LocalC(xc) == IF Direction(xc) = "incoming" THEN xc.dstC ELSE xc.srcC
LocalNs(xc) == IF Direction(xc) = "incoming" THEN xc.dstNs ELSE xc.srcNs
RemoteMech(xc) ==
    IF Direction(xc) = "incoming" THEN xc.srcM.type ELSE xc.dstM.type

\* a Request that does not look at the answer of IsValid
IsValid_Unchecked(xc) == TRUE

\* crossConnect.IsValid() of OvSForwarder.Request
IsValid(xc) == xc.valid

LocalVeth == XCon(KernelLocal, KernelLocal, <<>>, <<>>, "n1", "n2", NoPeer)
\* the two ends offer the same candidates
LocalShared ==
    XCon(KernelLocal, KernelLocal, <<"d1", "d2">>, <<"d1", "d2">>, "n1", "n1", NoPeer)
LocalVF == XCon(KernelLocal, KernelLocal, <<"d1">>, <<"d2">>, "n1", "n2", NoPeer)
\* an incoming remote cross-connect: the destination is the local end
RemoteVeth == XCon(VxlanRemote, KernelLocal, <<>>, <<>>, "n1", "n1", PeerA)
RemoteVF == XCon(KernelLocal, VxlanRemote, <<"d1", "d2">>, <<>>, "n1", "n1", PeerA)
RemoteVFB == XCon(KernelLocal, VxlanRemote, <<"d1", "d2">>, <<>>, "n1", "n1", PeerB)
RemoteUnknown == XCon(KernelLocal, UnknownRemote, <<"d1">>, <<>>, "n2", "n2", PeerA)
\* not both kernel, and both ends / neither end remote
BothRemote == XCon(VxlanRemote, VxlanRemote, <<>>, <<>>, "n1", "n1", PeerA)
NeitherRemote == XCon(KernelLocal, MemifLocal, <<"d1">>, <<>>, "n1", "n2", NoPeer)
\* a descriptor IsValid refuses
InvalidVF == [LocalVF EXCEPT !.valid = FALSE]

\* the pairs of cross-connects the two connection ids stand for
Scenarios ==
    { <<RemoteVF, RemoteVF>>, <<RemoteVeth, RemoteVF>>, <<RemoteVF, RemoteVFB>>,
      <<RemoteVF, RemoteUnknown>>, <<LocalShared, RemoteVF>>,
      <<LocalVeth, LocalVF>>, <<LocalVF, RemoteVF>>, <<LocalVeth, RemoteVeth>>,
      <<RemoteVF, BothRemote>>, <<LocalVeth, NeitherRemote>>,
      <<RemoteVF, InvalidVF>> }

\* every port name the bridge can be asked about
AllPortNames ==
    { VethPort(r, c) : r \in Roles, c \in ConnIDs }
        \cup { Rep(d) : d \in Devices }
        \cup { TunnelName(PeerA), TunnelName(PeerB) }

\* the ofport number the bridge gives a port (fixed per port name, never 0)
PortOrder ==
    << srcPrefix \o "c1", dstPrefix \o "c1", remPrefix \o "c1",
       srcPrefix \o "c2", dstPrefix \o "c2", remPrefix \o "c2",
       Rep("d1"), Rep("d2"), TunnelName(PeerA), TunnelName(PeerB) >>
OfPort(name) == CHOOSE i \in 1..Len(PortOrder) : PortOrder[i] = name

(***************************************************************************)
(* State                                                                   *)
(***************************************************************************)
VARIABLES
    \* ---- the forwarder's tables
    DevIDMap,          \* common.go: DevIDMap, key "role-id" -> device id
    PortMap,           \* ovsutils.go: PortMap, port name -> ofport number
    vxlanInterfaces,   \* remote.go: Connect.vxlanInterfaces, tunnel -> count
    VfNameMap,         \* sriov.go: VfNameMap, device id -> original link name
    localRemoteMutex,  \* local.go: holder of localRemoteMutex, or "free"
    \* ---- the handlers in flight
    xcon,              \* the cross-connect descriptor of each connection id
    pc,                \* where the handler of each connection id stands
    frame,             \* its local variables
    \* ---- the host
    ovsPorts,          \* ports attached to the bridge
    flows,             \* flow rules of the bridge
    linkLoc,           \* namespace each VF link is in
    linkName,          \* current name of each VF link
    veths,             \* state of each veth pair: "none", "host", "pod"
    nsAlive,           \* pod namespaces that exist
    \* ---- history
    status,            \* outcome of the last finished call per connection
    reply,             \* what that call returned to its caller
    tunAcq,            \* tunnel acquisitions of a connection not yet released by it
    created,           \* times the tunnel port of a name was created
    setupDev,          \* device SetupVF attached for a role of a connection
    ops,               \* calls started, per connection
    faults,            \* primitive failures injected
    podDeletes,        \* namespaces deleted
    trip,              \* per connection: the tables as its Request found them,
                       \* while nothing but its own fault-free steps happened,
                       \* or until that Request returned an error
    drv                \* inputs and results of a component driven on its own

tables == <<DevIDMap, PortMap, vxlanInterfaces, VfNameMap>>
host == <<ovsPorts, flows, linkLoc, linkName, veths, nsAlive>>
history == <<status, reply, tunAcq, created, setupDev, ops, faults, podDeletes>>
NoDrv == [kind |-> "none"]
vars == <<DevIDMap, PortMap, vxlanInterfaces, VfNameMap, localRemoteMutex,
          xcon, pc, frame, ovsPorts, flows, linkLoc, linkName, veths, nsAlive,
          status, reply, tunAcq, created, setupDev, ops, faults, podDeletes,
          trip, drv>>

NoTrip == [phase |-> "none", tbl |-> <<>>]

\* what a call returns: whether the cross-connect comes back (Request only)
\* and whether an error does
Reply(op, xc, err) == [op |-> op, xcon |-> xc, err |-> err]
NoReply == Reply("none", FALSE, FALSE)

\* the local variables of a handler that is not running
NoFrame == [dev1 |-> Empty, rep1 |-> Empty, port1 |-> Empty,
            dev2 |-> Empty, rep2 |-> Empty, port2 |-> Empty]

RoleKeys == { <<r, c>> : r \in Roles, c \in ConnIDs }

\* the forwarder after construction, on a host that has no connection yet
Quiet ==
    /\ DevIDMap = EmptyMap
    /\ PortMap = EmptyMap
    /\ vxlanInterfaces = EmptyMap
    /\ VfNameMap = EmptyMap
    /\ localRemoteMutex = "free"
    /\ pc = [c \in ConnIDs |-> "idle"]
    /\ frame = [c \in ConnIDs |-> NoFrame]
    /\ ovsPorts = {}
    /\ flows = {}
    /\ linkLoc = [d \in Devices |-> HostNs]
    /\ linkName = [d \in Devices |-> OrigName(d)]
    /\ veths = [n \in { VethPort(r, c) : r \in Roles, c \in ConnIDs } |-> "none"]
    /\ nsAlive = Namespaces
    /\ status = [c \in ConnIDs |-> "absent"]
    /\ reply = [c \in ConnIDs |-> NoReply]
    /\ tunAcq = [c \in ConnIDs |-> 0]
    /\ created = [t \in {TunnelName(PeerA), TunnelName(PeerB)} |-> 0]
    /\ setupDev = [k \in RoleKeys |-> Empty]
    /\ ops = [c \in ConnIDs |-> 0]
    /\ faults = 0
    /\ podDeletes = 0
    /\ trip = [c \in ConnIDs |-> NoTrip]

Init ==
    /\ Quiet
    /\ \E sc \in Scenarios : xcon = [c \in ConnIDs |-> IF c = "c1" THEN sc[1] ELSE sc[2]]
    /\ drv = NoDrv

(***************************************************************************)
(* External primitives.  A step takes a fault number f: 0 when every       *)
(* primitive it calls succeeds, k when the k-th group of primitives fails. *)
(* What a primitive finds on the host (a link in a namespace, a port on    *)
(* the bridge) follows from the host state.                                *)
(***************************************************************************)

\* ovsutils.CheckNetRepOvs: TRUE when netRep is not among the bridge's interfaces
CheckNetRepOvs(netRep, ports) == netRep \notin ports

\* ovsutils.GetInterfaceOfPort: the ofport of an interface; "--if-exists get"
\* prints nothing for an interface the bridge does not have, and Atoi("") is 0
GetInterfaceOfPort(name, ports) == IF name \in ports THEN OfPort(name) ELSE 0

\* sriov.GetLink(pci, name, namespaces...): the VF link is found when it is in
\* one of the namespaces searched
GetLink(d, namespaces) == linkLoc[d] \in namespaces

(***************************************************************************)
(* common.go: PickDeviceAndNetRep.  The scan over strings.Split(DeviceIDs, *)
(* ","): a lookup error (GetNetRepresentor or CheckNetRepAvailability) at  *)
(* candidate f ends the scan with the error; the first candidate whose     *)
(* representor is not attached is returned; after the loop the error       *)
(* "Could not find available Net Rep" is returned.                         *)
(***************************************************************************)
PickResult(err, dev, rep, hit) == [err |-> err, dev |-> dev, rep |-> rep, hit |-> hit]

RECURSIVE PickFrom(_, _, _, _)
PickFrom(cands, i, ports, f) ==
    IF i > Len(cands) THEN PickResult("none available", Empty, Empty, FALSE)
    ELSE IF f = i THEN PickResult("lookup failed", Empty, Empty, TRUE)
    ELSE IF CheckNetRepOvs(Rep(cands[i]), ports)
         THEN PickResult("nil", cands[i], Rep(cands[i]), FALSE)
         ELSE PickFrom(cands, i + 1, ports, f)

PickDeviceAndNetRep(cands, ports, f) == PickFrom(cands, 1, ports, f)

(***************************************************************************)
(* sriov.go: SetupVF.  f = 1: netns.Get, GetNsHandleFromInode or GetLink   *)
(* fails; 2: MoveToNetns fails; 3: netns.Set, AddAddress or SetName fails; *)
(* 4: SetAdminState fails.                                                 *)
(***************************************************************************)
VFResult(err, names, loc, lname, hit) ==
    [err |-> err, VfNameMap |-> names, linkLoc |-> loc, linkName |-> lname,
     hit |-> hit]

\* a failure after the move takes the link back and drops the record
SetupVF_Reverting(d, name, ns, f) ==
    IF f = 1 \/ ns \notin nsAlive \/ ~GetLink(d, {HostNs, ns})
    THEN VFResult(TRUE, VfNameMap, linkLoc, linkName, f = 1)
    ELSE LET names == Put(VfNameMap, d, linkName[d])
             moved == [linkLoc EXCEPT ![d] = ns]
         IN  IF f = 2 /\ linkLoc[d] # ns
             THEN VFResult(TRUE, names, linkLoc, linkName, TRUE)
             ELSE IF f \in 3..4 THEN VFResult(TRUE, VfNameMap, linkLoc, linkName, TRUE)
             ELSE VFResult(FALSE, names, moved, [linkName EXCEPT ![d] = name],
                           FALSE)

SetupVF(d, name, ns, f) ==
    IF f = 1 \/ ns \notin nsAlive \/ ~GetLink(d, {HostNs, ns})
    THEN VFResult(TRUE, VfNameMap, linkLoc, linkName, f = 1)
    ELSE LET names == Put(VfNameMap, d, linkName[d])
             moved == [linkLoc EXCEPT ![d] = ns]
         IN  \* MoveToNetns does nothing for a link that is already there
             IF f = 2 /\ linkLoc[d] # ns
             THEN VFResult(TRUE, names, linkLoc, linkName, TRUE)
             ELSE IF f = 3 THEN VFResult(TRUE, names, moved, linkName, TRUE)
             ELSE VFResult(f = 4, names, moved, [linkName EXCEPT ![d] = name],
                           f = 4)

(***************************************************************************)
(* sriov.go: ResetVF.  f = 1: netns.Get or GetLink fails; 2: SetName fails *)
(***************************************************************************)
\* a release that needs the handle of the target namespace and looks for
\* the link there
ResetVF_InTargetNetns(d, f) ==
    IF f = 1 \/ linkLoc[d] \notin nsAlive
    THEN VFResult(TRUE, VfNameMap, linkLoc, linkName, f = 1)
    ELSE IF Has(VfNameMap, d)
         THEN VFResult(f = 2, Del(VfNameMap, d), [linkLoc EXCEPT ![d] = HostNs],
                       IF f = 2 THEN linkName
                       ELSE [linkName EXCEPT ![d] = VfNameMap[d]], f = 2)
         ELSE VFResult(FALSE, VfNameMap, [linkLoc EXCEPT ![d] = HostNs], linkName,
                       FALSE)

ResetVF(d, f) ==
    IF f = 1 \/ ~GetLink(d, {HostNs})
    THEN VFResult(TRUE, VfNameMap, linkLoc, linkName, f = 1)
    ELSE IF Has(VfNameMap, d)
         THEN VFResult(f = 2, Del(VfNameMap, d), linkLoc,
                       IF f = 2 THEN linkName
                       ELSE [linkName EXCEPT ![d] = VfNameMap[d]], f = 2)
         ELSE VFResult(FALSE, VfNameMap, linkLoc, linkName, FALSE)

(***************************************************************************)
(* vxlan.go: createVXLANInterface / deleteVXLANInterface, each under       *)
(* vxlanInterfacesMutex.  fail: newVXLAN / deleteVXLAN returns an error.   *)
(***************************************************************************)
TunResult(err, reg, ports, pm, made) ==
    [err |-> err, vxlanInterfaces |-> reg, ovsPorts |-> ports, PortMap |-> pm,
     made |-> made]

\* faulty variants of the registry, against which its properties are tested
\* an existing entry is not counted again
createVXLANInterface_NoCount(t, fail) ==
    IF ~Has(vxlanInterfaces, t) /\ fail
    THEN TunResult(TRUE, vxlanInterfaces, ovsPorts, PortMap, FALSE)
    ELSE TunResult(FALSE, Put(vxlanInterfaces, t, 1),
                   IF Has(vxlanInterfaces, t) THEN ovsPorts ELSE ovsPorts \cup {t},
                   PortMap, ~Has(vxlanInterfaces, t))

\* the port is deleted by every release, whatever the count
deleteVXLANInterface_Early(t, fail) ==
    IF Get(vxlanInterfaces, t, 0) = 0
    THEN TunResult(FALSE, vxlanInterfaces, ovsPorts, PortMap, FALSE)
    ELSE TunResult(FALSE,
                   IF vxlanInterfaces[t] = 1 THEN Del(vxlanInterfaces, t)
                   ELSE Put(vxlanInterfaces, t, vxlanInterfaces[t] - 1),
                   ovsPorts \ {t}, Del(PortMap, t), FALSE)

\* the count is decremented without looking whether the entry exists
deleteVXLANInterface_Unchecked(t, fail) ==
    IF Get(vxlanInterfaces, t, 0) = 1
    THEN IF fail \/ t \notin ovsPorts
         THEN TunResult(TRUE, vxlanInterfaces, ovsPorts, PortMap, FALSE)
         ELSE TunResult(FALSE, Del(vxlanInterfaces, t), ovsPorts \ {t},
                        Del(PortMap, t), FALSE)
    ELSE TunResult(FALSE, Put(vxlanInterfaces, t, Get(vxlanInterfaces, t, 0) - 1),
                   ovsPorts, PortMap, FALSE)

\* the entry and the binding are dropped although del-port failed
deleteVXLANInterface_Forgetting(t, fail) ==
    IF Get(vxlanInterfaces, t, 0) = 1
    THEN IF fail \/ t \notin ovsPorts
         THEN TunResult(TRUE, Del(vxlanInterfaces, t), ovsPorts, Del(PortMap, t),
                        FALSE)
         ELSE TunResult(FALSE, Del(vxlanInterfaces, t), ovsPorts \ {t},
                        Del(PortMap, t), FALSE)
    ELSE IF Get(vxlanInterfaces, t, 0) # 0
         THEN TunResult(FALSE, Put(vxlanInterfaces, t, vxlanInterfaces[t] - 1),
                        ovsPorts, PortMap, FALSE)
         ELSE TunResult(FALSE, vxlanInterfaces, ovsPorts, PortMap, FALSE)

createVXLANInterface(t, fail) ==
    IF ~Has(vxlanInterfaces, t) /\ fail
    THEN TunResult(TRUE, vxlanInterfaces, ovsPorts, PortMap, FALSE)
    ELSE TunResult(FALSE, Put(vxlanInterfaces, t, Get(vxlanInterfaces, t, 0) + 1),
                   IF Has(vxlanInterfaces, t) THEN ovsPorts ELSE ovsPorts \cup {t},
                   PortMap, ~Has(vxlanInterfaces, t))

\* "del-port" of a port the bridge does not have is an error of ovs-vsctl
deleteVXLANInterface(t, fail) ==
    IF Get(vxlanInterfaces, t, 0) = 1
    THEN IF fail \/ t \notin ovsPorts
         THEN TunResult(TRUE, vxlanInterfaces, ovsPorts, PortMap, FALSE)
         ELSE TunResult(FALSE, Del(vxlanInterfaces, t), ovsPorts \ {t},
                        Del(PortMap, t), FALSE)
    ELSE IF Get(vxlanInterfaces, t, 0) # 0
         THEN TunResult(FALSE, Put(vxlanInterfaces, t, vxlanInterfaces[t] - 1),
                        ovsPorts, PortMap, FALSE)
         ELSE TunResult(FALSE, vxlanInterfaces, ovsPorts, PortMap, FALSE)

(***************************************************************************)
(* Bridge programming                                                      *)
(***************************************************************************)
Flow(inp, tun, set, out) == [inp |-> inp, tun |-> tun, set |-> set, out |-> out]
OvsResult(err, ports, fl, pm, hit) ==
    [err |-> err, ovsPorts |-> ports, flows |-> fl, PortMap |-> pm, hit |-> hit]

\* ovs-ofctl del-flows br "in_port=n" / "in_port=n,tun_id=v"
DelFlowsInPort(fl, n) == { x \in fl : x.inp # n }
DelFlowsInPortTun(fl, n, v) == { x \in fl : ~(x.inp = n /\ x.tun = v) }
\* ovs-ofctl add-flow: a flow with the same match is replaced
AddFlow(fl, fw) == { x \in fl : ~(x.inp = fw.inp /\ x.tun = fw.tun) } \cup {fw}

(***************************************************************************)
(* remote.go: SetupOvSConnection.  f = 1: add-port fails; 2: an ofport     *)
(* query or the first add-flow fails; 3: the second add-flow fails.        *)
(***************************************************************************)
SetupOvSConnection(local, tunnel, vni, f) ==
    IF f = 1 THEN OvsResult(TRUE, ovsPorts, flows, PortMap, TRUE)
    ELSE LET ports1 == ovsPorts \cup {local}
             ln == GetInterfaceOfPort(local, ports1)
             tn == GetInterfaceOfPort(tunnel, ports1)
             flows1 == AddFlow(flows, Flow(ln, 0, vni, tn))
             pm1 == Put(PortMap, local, ln)
         IN  IF f = 2 THEN OvsResult(TRUE, ports1, flows, PortMap, TRUE)
             ELSE IF f = 3 THEN OvsResult(TRUE, ports1, flows1, pm1, TRUE)
             ELSE OvsResult(FALSE, ports1, AddFlow(flows1, Flow(tn, vni, 0, ln)),
                            Put(pm1, tunnel, tn), FALSE)

(***************************************************************************)
(* remote.go: DeleteLocalOvSConnection.  f = 1: del-flows of the local     *)
(* port fails; 2: del-flows of the tunnel port fails; 3: del-port fails.   *)
(* Nothing is returned; PortMap[local] is deleted on return.               *)
(***************************************************************************)
RemoteDeleteLocalOvSConnection(local, tunnel, vni, f) ==
    LET ln == Get(PortMap, local, 0)
        tn == Get(PortMap, tunnel, 0)
        flows1 == IF f = 1 THEN flows ELSE DelFlowsInPort(flows, ln)
        flows2 == IF tn # 0 /\ f # 2 THEN DelFlowsInPortTun(flows1, tn, vni)
                  ELSE flows1
        ports1 == IF f = 3 THEN ovsPorts ELSE ovsPorts \ {local}
    IN  OvsResult(FALSE, ports1, flows2, Del(PortMap, local),
                  f \in {1, 3} \/ (f = 2 /\ tn # 0))

(***************************************************************************)
(* local.Connect.SetupLocalOvSConnection.  f = 1: add-port src fails;      *)
(* 2: add-port dst fails; 3: an ofport query or the first add-flow fails;  *)
(* 4: the second add-flow fails.                                           *)
(***************************************************************************)
\* only the flow from the source port to the destination port is installed
SetupLocalOvSConnection_OneFlow(src, dst, f) ==
    IF f = 1 THEN OvsResult(TRUE, ovsPorts, flows, PortMap, TRUE)
    ELSE IF f = 2 THEN OvsResult(TRUE, ovsPorts \cup {src}, flows, PortMap, TRUE)
    ELSE LET ports2 == ovsPorts \cup {src, dst}
             sp == GetInterfaceOfPort(src, ports2)
             dp == GetInterfaceOfPort(dst, ports2)
             flows1 == AddFlow(flows, Flow(sp, 0, 0, dp))
             pm1 == Put(PortMap, src, sp)
         IN  IF f = 3 THEN OvsResult(TRUE, ports2, flows, PortMap, TRUE)
             ELSE IF f = 4 THEN OvsResult(TRUE, ports2, flows1, pm1, TRUE)
             ELSE OvsResult(FALSE, ports2, flows1, Put(pm1, dst, dp), FALSE)

SetupLocalOvSConnection(src, dst, f) ==
    IF f = 1 THEN OvsResult(TRUE, ovsPorts, flows, PortMap, TRUE)
    ELSE IF f = 2 THEN OvsResult(TRUE, ovsPorts \cup {src}, flows, PortMap, TRUE)
    ELSE LET ports2 == ovsPorts \cup {src, dst}
             sp == GetInterfaceOfPort(src, ports2)
             dp == GetInterfaceOfPort(dst, ports2)
             flows1 == AddFlow(flows, Flow(sp, 0, 0, dp))
             pm1 == Put(PortMap, src, sp)
         IN  IF f = 3 THEN OvsResult(TRUE, ports2, flows, PortMap, TRUE)
             ELSE IF f = 4 THEN OvsResult(TRUE, ports2, flows1, pm1, TRUE)
             ELSE OvsResult(FALSE, ports2, AddFlow(flows1, Flow(dp, 0, 0, sp)),
                            Put(pm1, dst, dp), FALSE)

(***************************************************************************)
(* local.Connect.DeleteLocalOvSConnection.  f = 1, 2: del-flows of src /   *)
(* dst fails; 3, 4: del-port of src / dst fails.                           *)
(***************************************************************************)
LocalDeleteLocalOvSConnection(src, dst, f) ==
    LET sp == Get(PortMap, src, 0)
        dp == Get(PortMap, dst, 0)
        flows1 == IF f = 1 THEN flows ELSE DelFlowsInPort(flows, sp)
        flows2 == IF f = 2 THEN flows1 ELSE DelFlowsInPort(flows1, dp)
        ports1 == IF f = 3 THEN ovsPorts ELSE ovsPorts \ {src}
        ports2 == IF f = 4 THEN ports1 ELSE ports1 \ {dst}
    IN  OvsResult(FALSE, ports2, flows2, Del(Del(PortMap, src), dst), f # 0)

(***************************************************************************)
(* veth wiring (common.go).  The pair is named by its bridge-side end.     *)
(***************************************************************************)
VethResult(err, v, hit) == [err |-> err, veths |-> v, hit |-> hit]

\* CreateInterfaces, SetInterfacesUp, SetupInterface of initInterface.
\* f = 1: LinkAdd fails; 2: SetupInterface fails before the link is in the
\* pod namespace; 3: it fails after that.
VethInit(port, ns, f) ==
    IF f = 1 \/ veths[port] # "none" THEN VethResult(TRUE, veths, f = 1)
    ELSE IF f = 2 \/ ns \notin nsAlive
         THEN VethResult(TRUE, [veths EXCEPT ![port] = "host"], f = 2)
         ELSE VethResult(f = 3, [veths EXCEPT ![port] = "pod"], f = 3)

\* CreateInterfaces alone (initLocalInterface of the remote path)
CreateInterfaces(port, f) ==
    IF f = 1 \/ veths[port] # "none" THEN VethResult(TRUE, veths, f = 1)
    ELSE VethResult(FALSE, [veths EXCEPT ![port] = "host"], FALSE)

\* SetInterfacesUp and SetupInterface (setupLocalInterface of the remote path)
\* f = 1: fails before the link is in the pod namespace; 2: fails after that
SetupInterface(port, ns, f) ==
    IF f = 1 \/ ns \notin nsAlive \/ veths[port] # "host"
    THEN VethResult(TRUE, veths, f = 1)
    ELSE VethResult(f = 2, [veths EXCEPT ![port] = "pod"], f = 2)

\* ClearInterfaceSetup: brings the pod-side end back to the host namespace
ClearInterfaceSetup(port, ns, fail) ==
    IF fail \/ ns \notin nsAlive \/ veths[port] # "pod"
    THEN VethResult(TRUE, veths, fail)
    ELSE VethResult(FALSE, [veths EXCEPT ![port] = "host"], FALSE)

\* DeleteInterface(name): byPodEnd when name is the pod-side end's name (found
\* in the host namespace only after it was brought back), else the bridge-side
DeleteInterface(v, port, byPodEnd, fail) ==
    IF fail \/ v[port] = "none" \/ (byPodEnd /\ v[port] # "host")
    THEN VethResult(TRUE, v, fail)
    ELSE VethResult(FALSE, [v EXCEPT ![port] = "none"], FALSE)

(***************************************************************************)
(* Handlers.  Each action is one step of the handler of connection c; a    *)
(* handler that returns goes back to "idle".                               *)
(***************************************************************************)
Tunnel(c) == TunnelName(xcon[c].peer)

\* a fault number is either 0 or a failure that really happens, within budget
Fault(f, hit) ==
    IF f = 0 THEN faults' = faults
    ELSE hit /\ faults < MaxFaults /\ faults' = faults + 1

\* the call of connection c begins
OpsTotal == ops["c1"] + ops["c2"]
Begin(c) ==
    /\ pc[c] = "idle"
    /\ OpsTotal < MaxOps
    /\ ops' = [ops EXCEPT ![c] = @ + 1]

\* the round trip of connection c after a step of its handler; a step of one
\* connection ends the round trips of the others, a fault ends its own unless
\* it is the record of a Request that failed
Trip(c, own) ==
    trip' = [x \in ConnIDs |->
                IF x # c \/ (faults' # faults /\ own.phase # "failed")
                THEN NoTrip ELSE own]

\* the outcomes of a Request that returns an error
RequestFailures ==
    {"failed", "none available", "lookup failed", "invalid", "invalid type"}
\* the outcomes of connectOrDisconnect(crossConnect, false)
CloseOutcomes == {"closed", "close failed", "close invalid type"}

\* ovsforwarder.go, Request: an invalid cross-connect comes back with the
\* error; an error of connectOrDisconnect comes back with nil
OvSForwarder_Request(valid, err) ==
    IF ~valid THEN Reply("Request", TRUE, TRUE)
    ELSE IF err THEN Reply("Request", FALSE, TRUE)
    ELSE Reply("Request", TRUE, FALSE)

\* ovsforwarder.go, Close: the error of connectOrDisconnect is logged
OvSForwarder_Close(err) == Reply("Close", FALSE, FALSE)

\* the handler of connection c returns
Return(c, st) ==
    /\ pc' = [pc EXCEPT ![c] = "idle"]
    /\ frame' = [frame EXCEPT ![c] = NoFrame]
    /\ status' = [status EXCEPT ![c] = st]
    /\ reply' = [reply EXCEPT ![c] =
                    IF st \in CloseOutcomes THEN OvSForwarder_Close(st # "closed")
                    ELSE OvSForwarder_Request(st # "invalid", st # "connected")]
    /\ Trip(c, IF st = "connected" /\ trip[c].phase = "request"
               THEN [trip[c] EXCEPT !.phase = "connected"]
               ELSE IF st = "closed" /\ trip[c].phase = "close"
               THEN [trip[c] EXCEPT !.phase = "closed"]
               ELSE IF st \in RequestFailures /\ trip[c].phase = "request"
               THEN [trip[c] EXCEPT !.phase = "failed"]
               ELSE IF st \in RequestFailures /\ pc[c] = "idle"
               THEN [phase |-> "failed", tbl |-> tables]
               ELSE NoTrip)

Goto(c, label, fr) ==
    /\ pc' = [pc EXCEPT ![c] = label]
    /\ frame' = [frame EXCEPT ![c] = fr]
    /\ status' = status
    /\ reply' = reply
    /\ Trip(c, IF label \in {"rc_init", "lc_src"}
               THEN [phase |-> "request", tbl |-> tables]
               ELSE IF label \in {"rd_ovs", "ld_ovs"}
               THEN IF pc[c] = "idle"
                    THEN IF trip[c].phase = "connected"
                         THEN [trip[c] EXCEPT !.phase = "close"]
                         ELSE NoTrip
                    ELSE trip[c]
               ELSE trip[c])

\* DevIDMap after a successful createRemoteConnection (part_002 line 123)
RecordRemote(c, dev) == Put(DevIDMap, DevKey("rem", c), dev)

(***************************************************************************)
(* part_002: createRemoteConnection (Request, remote path)                 *)
(***************************************************************************)
\* the picker is called whether or not the parameter is present
RemoteRequest_Pick_Always(c, f) ==
    /\ Begin(c)
    /\ IsValid(xcon[c]) /\ Path(xcon[c]) = "remote" /\ Direction(xcon[c]) # "invalid"
    /\ LET R == PickDeviceAndNetRep(LocalC(xcon[c]), ovsPorts, f)
       IN  /\ Fault(f, R.hit)
           /\ IF R.err # "nil" THEN Return(c, R.err)
              ELSE Goto(c, "rc_init", [NoFrame EXCEPT !.dev1 = R.dev, !.rep1 = R.rep])
    /\ UNCHANGED <<drv, tables, localRemoteMutex, xcon, host, tunAcq, created,
                   setupDev, podDeletes>>

\* lines 88-95: the candidate list, PickDeviceAndNetRep
RemoteRequest_Pick(c, f) ==
    /\ Begin(c)
    /\ IsValid(xcon[c]) /\ Path(xcon[c]) = "remote" /\ Direction(xcon[c]) # "invalid"
    /\ LET cands == LocalC(xcon[c])
           R == IF cands # <<>> THEN PickDeviceAndNetRep(cands, ovsPorts, f)
                ELSE PickResult("nil", Empty, Empty, FALSE)
       IN  /\ Fault(f, R.hit)
           /\ IF R.err # "nil" THEN Return(c, R.err)
              ELSE Goto(c, "rc_init", [NoFrame EXCEPT !.dev1 = R.dev, !.rep1 = R.rep])
    /\ UNCHANGED <<drv, tables, localRemoteMutex, xcon, host, tunAcq, created,
                   setupDev, podDeletes>>

\* line 97, initLocalInterface: a veth pair when no device was picked
RemoteRequest_Init(c, f) ==
    /\ pc[c] = "rc_init"
    /\ IF frame[c].dev1 # Empty
       THEN /\ f = 0
            /\ Fault(f, FALSE)
            /\ veths' = veths
            /\ Goto(c, "rc_tunnel", [frame[c] EXCEPT !.port1 = frame[c].rep1])
       ELSE LET R == CreateInterfaces(VethPort("rem", c), f)
            IN  /\ Fault(f, R.hit)
                /\ veths' = R.veths
                /\ IF R.err THEN Return(c, "failed")
                   ELSE Goto(c, "rc_tunnel",
                             [frame[c] EXCEPT !.port1 = VethPort("rem", c)])
    /\ UNCHANGED <<drv, tables, localRemoteMutex, xcon, ovsPorts, flows, linkLoc,
                   linkName, nsAlive, tunAcq, created, setupDev, ops, podDeletes>>

\* line 103, CreateTunnelInterface
RemoteRequest_Tunnel(c, f) ==
    /\ pc[c] = "rc_tunnel"
    /\ IF RemoteMech(xcon[c]) # "vxlan"
       THEN /\ f = 0
            /\ Fault(f, FALSE)
            /\ UNCHANGED <<vxlanInterfaces, ovsPorts, tunAcq, created>>
            /\ Return(c, "failed")
       ELSE LET R == createVXLANInterface(Tunnel(c), f = 1)
            IN  /\ Fault(f, R.err)
                /\ vxlanInterfaces' = R.vxlanInterfaces
                /\ ovsPorts' = R.ovsPorts
                /\ tunAcq' = [tunAcq EXCEPT ![c] = IF R.err THEN @ ELSE @ + 1]
                /\ created' = [created EXCEPT ![Tunnel(c)] = IF R.made THEN @ + 1 ELSE @]
                /\ IF R.err THEN Return(c, "failed")
                   ELSE Goto(c, "rc_ovs", frame[c])
    /\ UNCHANGED <<drv, DevIDMap, PortMap, VfNameMap, localRemoteMutex, xcon, flows,
                   linkLoc, linkName, veths, nsAlive, setupDev, ops, podDeletes>>

\* line 113, SetupOvSConnection
RemoteRequest_Ovs(c, f) ==
    /\ pc[c] = "rc_ovs"
    /\ LET R == SetupOvSConnection(frame[c].port1, Tunnel(c), Vni(c), f)
       IN  /\ Fault(f, R.hit)
           /\ ovsPorts' = R.ovsPorts
           /\ flows' = R.flows
           /\ PortMap' = R.PortMap
           /\ IF R.err THEN Return(c, "failed")
              ELSE Goto(c, "rc_iface", frame[c])
    /\ UNCHANGED <<drv, DevIDMap, vxlanInterfaces, VfNameMap, localRemoteMutex, xcon,
                   linkLoc, linkName, veths, nsAlive, tunAcq, created, setupDev,
                   ops, podDeletes>>

\* lines 118-126, setupLocalInterface and the allocation record
RemoteRequest_Iface(c, f) ==
    /\ pc[c] = "rc_iface"
    /\ IF frame[c].dev1 # Empty
       THEN LET R == SetupVF(frame[c].dev1, IfName("rem", c), LocalNs(xcon[c]), f)
            IN  /\ Fault(f, R.hit)
                /\ VfNameMap' = R.VfNameMap
                /\ linkLoc' = R.linkLoc
                /\ linkName' = R.linkName
                /\ veths' = veths
                /\ setupDev' = [setupDev EXCEPT ![<<"rem", c>>] =
                                    IF R.err THEN @ ELSE frame[c].dev1]
                /\ DevIDMap' = IF R.err THEN DevIDMap
                               ELSE RecordRemote(c, frame[c].dev1)
                /\ Return(c, IF R.err THEN "failed" ELSE "connected")
       ELSE LET R == SetupInterface(frame[c].port1, LocalNs(xcon[c]), f)
            IN  /\ f \in 0..2
                /\ Fault(f, R.hit)
                /\ veths' = R.veths
                /\ UNCHANGED <<VfNameMap, linkLoc, linkName, setupDev>>
                /\ DevIDMap' = IF R.err THEN DevIDMap
                               ELSE RecordRemote(c, frame[c].dev1)
                /\ Return(c, IF R.err THEN "failed" ELSE "connected")
    /\ UNCHANGED <<drv, PortMap, vxlanInterfaces, localRemoteMutex, xcon, ovsPorts,
                   flows, nsAlive, tunAcq, created, ops, podDeletes>>

(***************************************************************************)
(* part_002: deleteRemoteConnection (Close, remote path)                   *)
(***************************************************************************)
\* lines 144-164: GetTunnelParameters, the allocation record, the representor
RemoteClose_Lookup(c, f) ==
    /\ Begin(c)
    /\ Path(xcon[c]) = "remote" /\ Direction(xcon[c]) # "invalid"
    /\ IF RemoteMech(xcon[c]) # "vxlan"
       THEN /\ f = 0
            /\ Fault(f, FALSE)
            /\ Return(c, "close failed")
       ELSE LET key == DevKey("rem", c)
                dev == Get(DevIDMap, key, Empty)
                netRep == IF f = 1 THEN Empty ELSE Rep(dev)
            IN  /\ f \in 0..1
                /\ Fault(f, dev # Empty)
                /\ Goto(c, "rd_ovs",
                        [NoFrame EXCEPT !.dev1 = dev,
                                        !.port1 = IF dev # Empty THEN netRep
                                                  ELSE VethPort("rem", c)])
    /\ UNCHANGED <<drv, tables, localRemoteMutex, xcon, host, tunAcq, created,
                   setupDev, podDeletes>>

\* line 165, DeleteLocalOvSConnection
RemoteClose_Ovs(c, f) ==
    /\ pc[c] = "rd_ovs"
    /\ LET R == RemoteDeleteLocalOvSConnection(frame[c].port1, Tunnel(c), Vni(c), f)
       IN  /\ Fault(f, R.hit)
           /\ ovsPorts' = R.ovsPorts
           /\ flows' = R.flows
           /\ PortMap' = R.PortMap
           /\ Goto(c, "rd_iface", frame[c])
    /\ UNCHANGED <<drv, DevIDMap, vxlanInterfaces, VfNameMap, localRemoteMutex, xcon,
                   linkLoc, linkName, veths, nsAlive, tunAcq, created, setupDev,
                   ops, podDeletes>>

\* line 167, releaseLocalInterface
RemoteClose_Iface(c, f) ==
    /\ pc[c] = "rd_iface"
    /\ IF frame[c].dev1 # Empty
       THEN \E pci \in Devices \cup {Empty} :
            LET cfg == GetLocalConnectionConfig(Conn(pci, LocalNs(xcon[c])),
                                                frame[c].dev1, "rem", c)
                R == ResetVF(cfg.PciAddress, f)
            IN  /\ Fault(f, R.hit)
                /\ VfNameMap' = R.VfNameMap
                /\ linkLoc' = R.linkLoc
                /\ linkName' = R.linkName
                /\ veths' = veths
       ELSE LET port == VethPort("rem", c)
                R1 == ClearInterfaceSetup(port, LocalNs(xcon[c]), f = 1)
                R2 == DeleteInterface(R1.veths, port, TRUE, f = 2)
            IN  /\ Fault(f, R1.hit \/ R2.hit)
                /\ veths' = R2.veths
                /\ UNCHANGED <<VfNameMap, linkLoc, linkName>>
    /\ Goto(c, "rd_tunnel", frame[c])
    /\ UNCHANGED <<drv, DevIDMap, PortMap, vxlanInterfaces, localRemoteMutex, xcon,
                   ovsPorts, flows, nsAlive, tunAcq, created, setupDev, ops,
                   podDeletes>>

\* lines 171-178, DeleteTunnelInterface and the deletion of the record
RemoteClose_Tunnel(c, f) ==
    /\ pc[c] = "rd_tunnel"
    /\ LET R == deleteVXLANInterface(Tunnel(c), f = 1)
       IN  /\ f \in 0..1
           /\ Fault(f, R.err /\ Tunnel(c) \in ovsPorts)
           /\ vxlanInterfaces' = R.vxlanInterfaces
           /\ ovsPorts' = R.ovsPorts
           /\ PortMap' = R.PortMap
           /\ tunAcq' = [tunAcq EXCEPT ![c] = IF R.err \/ @ = 0 THEN @ ELSE @ - 1]
    /\ DevIDMap' = Del(DevIDMap, DevKey("rem", c))
    /\ setupDev' = [setupDev EXCEPT ![<<"rem", c>>] = Empty]
    /\ Return(c, "closed")
    /\ UNCHANGED <<drv, VfNameMap, localRemoteMutex, xcon, flows, linkLoc, linkName,
                   veths, nsAlive, created, ops, podDeletes>>

(***************************************************************************)
(* local.go: initInterface / releaseInterface for one end of a local       *)
(* cross-connect.  They act on VfNameMap, the VF links and the veth pairs. *)
(***************************************************************************)
IfResult(err, names, loc, lname, v, hit) ==
    [err |-> err, VfNameMap |-> names, linkLoc |-> loc, linkName |-> lname,
     veths |-> v, hit |-> hit]

initInterface(dev, role, c, ns, f) ==
    IF dev # Empty
    THEN LET cfg == GetLocalConnectionConfig(Conn(Empty, ns), dev, role, c)
             R == SetupVF(cfg.PciAddress, cfg.Name, cfg.TargetNetns, f)
         IN  IfResult(R.err, R.VfNameMap, R.linkLoc, R.linkName, veths, R.hit)
    ELSE LET R == VethInit(VethPort(role, c), ns, f)
         IN  IfResult(R.err, VfNameMap, linkLoc, linkName, R.veths,
                      R.hit /\ f \in 1..3)

\* f = 1, 2: for a device the faults of ResetVF; for a veth pair the failure
\* of ClearInterfaceSetup, of DeleteInterface.  Errors are logged only.
\* the device is taken from the Close request when the request names one
releaseInterface_FromRequest(dev, role, c, conn, f) ==
    IF dev # Empty
    THEN LET R == ResetVF(IF conn.PciAddress # Empty THEN conn.PciAddress ELSE dev, f)
         IN  IfResult(FALSE, R.VfNameMap, R.linkLoc, R.linkName, veths, R.hit)
    ELSE LET R1 == ClearInterfaceSetup(VethPort(role, c), conn.NetNsInode, f = 1)
             R2 == DeleteInterface(R1.veths, VethPort(role, c), FALSE, f = 2)
         IN  IfResult(FALSE, VfNameMap, linkLoc, linkName, R2.veths,
                      f \in 1..2)

releaseInterface(dev, role, c, conn, f) ==
    IF dev # Empty
    THEN LET cfg == GetLocalConnectionConfig(conn, dev, role, c)
             R == ResetVF(cfg.PciAddress, f)
         IN  IfResult(FALSE, R.VfNameMap, R.linkLoc, R.linkName, veths, R.hit)
    ELSE LET R1 == ClearInterfaceSetup(VethPort(role, c), conn.NetNsInode, f = 1)
             R2 == DeleteInterface(R1.veths, VethPort(role, c), FALSE, f = 2)
         IN  IfResult(FALSE, VfNameMap, linkLoc, linkName, R2.veths,
                      f \in 1..2)

\* DevIDMap after a successful createLocalConnection (local.go lines 162-163)
RecordLocal(c, srcDev, dstDev) ==
    Put(Put(DevIDMap, DevKey("src", c), srcDev), DevKey("dst", c), dstDev)

(***************************************************************************)
(* local.go: createLocalConnection (Request, local path), under            *)
(* localRemoteMutex from the first step to the return.                     *)
(***************************************************************************)
\* lines 117-135: the lock and the two calls of PickDeviceAndNetRep
\* f = 1, 2: lookup failure at that source candidate; 3, 4: at the
\* destination candidate f - 2
LocalRequest_Pick(c, f) ==
    /\ Begin(c)
    /\ IsValid(xcon[c]) /\ Path(xcon[c]) = "local"
    /\ localRemoteMutex = "free"
    /\ LET S == IF xcon[c].srcC # <<>>
                THEN PickDeviceAndNetRep(xcon[c].srcC, ovsPorts, IF f \in 1..2 THEN f ELSE 0)
                ELSE PickResult("nil", Empty, Empty, FALSE)
           D == IF xcon[c].dstC # <<>>
                THEN PickDeviceAndNetRep(xcon[c].dstC, ovsPorts, IF f \in 3..4 THEN f - 2 ELSE 0)
                ELSE PickResult("nil", Empty, Empty, FALSE)
       IN  /\ Fault(f, S.hit \/ (S.err = "nil" /\ D.hit))
           /\ IF S.err # "nil" \/ D.err # "nil"
              THEN /\ Return(c, IF S.err # "nil" THEN S.err ELSE D.err)
                   /\ localRemoteMutex' = "free"
              ELSE /\ Goto(c, "lc_src", [NoFrame EXCEPT !.dev1 = S.dev, !.rep1 = S.rep,
                                                        !.dev2 = D.dev, !.rep2 = D.rep])
                   /\ localRemoteMutex' = c
    /\ UNCHANGED <<drv, tables, xcon, host, tunAcq, created, setupDev, podDeletes>>

\* line 137: initInterface of the source end
LocalRequest_Src(c, f) ==
    /\ pc[c] = "lc_src"
    /\ LET R == initInterface(frame[c].dev1, "src", c, xcon[c].srcNs, f)
       IN  /\ Fault(f, R.hit)
           /\ VfNameMap' = R.VfNameMap
           /\ linkLoc' = R.linkLoc
           /\ linkName' = R.linkName
           /\ veths' = R.veths
           /\ setupDev' = [setupDev EXCEPT ![<<"src", c>>] =
                               IF R.err THEN @ ELSE frame[c].dev1]
           /\ IF R.err
              THEN Return(c, "failed") /\ localRemoteMutex' = "free"
              ELSE /\ Goto(c, "lc_dst",
                           [frame[c] EXCEPT !.port1 =
                                IF frame[c].dev1 # Empty THEN frame[c].rep1
                                ELSE VethPort("src", c)])
                   /\ UNCHANGED localRemoteMutex
    /\ UNCHANGED <<drv, DevIDMap, PortMap, vxlanInterfaces, xcon, ovsPorts, flows,
                   nsAlive, tunAcq, created, ops, podDeletes>>

\* line 147: initInterface of the destination end
LocalRequest_Dst(c, f) ==
    /\ pc[c] = "lc_dst"
    /\ LET R == initInterface(frame[c].dev2, "dst", c, xcon[c].dstNs, f)
       IN  /\ Fault(f, R.hit)
           /\ VfNameMap' = R.VfNameMap
           /\ linkLoc' = R.linkLoc
           /\ linkName' = R.linkName
           /\ veths' = R.veths
           /\ setupDev' = [setupDev EXCEPT ![<<"dst", c>>] =
                               IF R.err THEN @ ELSE frame[c].dev2]
           /\ IF R.err
              THEN Return(c, "failed") /\ localRemoteMutex' = "free"
              ELSE /\ Goto(c, "lc_ovs",
                           [frame[c] EXCEPT !.port2 =
                                IF frame[c].dev2 # Empty THEN frame[c].rep2
                                ELSE VethPort("dst", c)])
                   /\ UNCHANGED localRemoteMutex
    /\ UNCHANGED <<drv, DevIDMap, PortMap, vxlanInterfaces, xcon, ovsPorts, flows,
                   nsAlive, tunAcq, created, ops, podDeletes>>

\* lines 157-169: SetupLocalOvSConnection and the two allocation records
LocalRequest_Ovs(c, f) ==
    /\ pc[c] = "lc_ovs"
    /\ LET R == SetupLocalOvSConnection(frame[c].port1, frame[c].port2, f)
       IN  /\ Fault(f, R.hit)
           /\ ovsPorts' = R.ovsPorts
           /\ flows' = R.flows
           /\ PortMap' = R.PortMap
           /\ DevIDMap' = IF R.err THEN DevIDMap
                          ELSE RecordLocal(c, frame[c].dev1, frame[c].dev2)
           /\ Return(c, IF R.err THEN "failed" ELSE "connected")
    /\ localRemoteMutex' = "free"
    /\ UNCHANGED <<drv, vxlanInterfaces, VfNameMap, xcon, linkLoc, linkName, veths,
                   nsAlive, tunAcq, created, setupDev, ops, podDeletes>>

(***************************************************************************)
(* local.go: deleteLocalConnection (Close, local path), under              *)
(* localRemoteMutex from the first step to the return.                     *)
(***************************************************************************)
\* lines 176-206: the lock, the two records, the representors, the port names
\* f = 1: GetNetRepresentor of the source device fails; 2: of the destination
LocalClose_Lookup(c, f) ==
    /\ Begin(c)
    /\ Path(xcon[c]) = "local"
    /\ localRemoteMutex = "free"
    /\ LET srcDev == Get(DevIDMap, DevKey("src", c), Empty)
           dstDev == Get(DevIDMap, DevKey("dst", c), Empty)
           srcRep == IF f = 1 THEN Empty ELSE Rep(srcDev)
           dstRep == IF f = 2 THEN Empty ELSE Rep(dstDev)
       IN  /\ f \in 0..2
           /\ Fault(f, (f = 1 /\ srcDev # Empty) \/ (f = 2 /\ dstDev # Empty))
           /\ Goto(c, "ld_ovs",
                   [NoFrame EXCEPT
                        !.dev1 = srcDev, !.dev2 = dstDev,
                        !.port1 = IF srcDev # Empty THEN srcRep ELSE VethPort("src", c),
                        !.port2 = IF dstDev # Empty THEN dstRep ELSE VethPort("dst", c)])
    /\ localRemoteMutex' = c
    /\ UNCHANGED <<drv, tables, xcon, host, tunAcq, created, setupDev, podDeletes>>

\* line 208: DeleteLocalOvSConnection
LocalClose_Ovs(c, f) ==
    /\ pc[c] = "ld_ovs"
    /\ LET R == LocalDeleteLocalOvSConnection(frame[c].port1, frame[c].port2, f)
       IN  /\ Fault(f, R.hit)
           /\ ovsPorts' = R.ovsPorts
           /\ flows' = R.flows
           /\ PortMap' = R.PortMap
           /\ Goto(c, "ld_src", frame[c])
    /\ UNCHANGED <<drv, DevIDMap, vxlanInterfaces, VfNameMap, localRemoteMutex, xcon,
                   linkLoc, linkName, veths, nsAlive, tunAcq, created, setupDev,
                   ops, podDeletes>>

\* line 210: releaseInterface of the source end
LocalClose_Src(c, f) ==
    /\ pc[c] = "ld_src"
    /\ \E pci \in Devices \cup {Empty} :
        LET R == releaseInterface(frame[c].dev1, "src", c,
                                  Conn(pci, xcon[c].srcNs), f)
        IN /\ Fault(f, R.hit)
           /\ VfNameMap' = R.VfNameMap
           /\ linkLoc' = R.linkLoc
           /\ linkName' = R.linkName
           /\ veths' = R.veths
           /\ Goto(c, "ld_dst", frame[c])
    /\ UNCHANGED <<drv, DevIDMap, PortMap, vxlanInterfaces, localRemoteMutex, xcon,
                   ovsPorts, flows, nsAlive, tunAcq, created, setupDev, ops,
                   podDeletes>>

\* lines 214-224: releaseInterface of the destination end, the two records
LocalClose_Dst(c, f) ==
    /\ pc[c] = "ld_dst"
    /\ \E pci \in Devices \cup {Empty} :
        LET R == releaseInterface(frame[c].dev2, "dst", c,
                                  Conn(pci, xcon[c].dstNs), f)
        IN /\ Fault(f, R.hit)
           /\ VfNameMap' = R.VfNameMap
           /\ linkLoc' = R.linkLoc
           /\ linkName' = R.linkName
           /\ veths' = R.veths
    /\ DevIDMap' = Del(Del(DevIDMap, DevKey("src", c)), DevKey("dst", c))
    /\ setupDev' = [setupDev EXCEPT ![<<"src", c>>] = Empty, ![<<"dst", c>>] = Empty]
    /\ Return(c, "closed")
    /\ localRemoteMutex' = "free"
    /\ UNCHANGED <<drv, PortMap, vxlanInterfaces, xcon, ovsPorts, flows, nsAlive,
                   tunAcq, created, ops, podDeletes>>

(***************************************************************************)
(* ovsforwarder.go / part_002: the calls that end before any handler runs  *)
(***************************************************************************)
\* Request, lines 72-75: IsValid refuses the cross-connect
Request_Invalid(c) ==
    /\ Begin(c)
    /\ ~IsValid(xcon[c])
    /\ Fault(0, FALSE)
    /\ Return(c, "invalid")
    /\ UNCHANGED <<drv, tables, localRemoteMutex, xcon, host, tunAcq, created,
                   setupDev, podDeletes>>

\* handleRemoteConnection, lines 44-46: both ends or neither end remote,
\* for a Request (connect) and for a Close
InvalidType(c, connect) ==
    /\ Begin(c)
    /\ connect => IsValid(xcon[c])
    /\ Path(xcon[c]) = "remote"
    /\ Direction(xcon[c]) = "invalid"
    /\ Fault(0, FALSE)
    /\ Return(c, IF connect THEN "invalid type" ELSE "close invalid type")
    /\ UNCHANGED <<drv, tables, localRemoteMutex, xcon, host, tunAcq, created,
                   setupDev, podDeletes>>

(***************************************************************************)
(* The environment: a pod goes away.  Its namespace vanishes, the VF links *)
(* in it come back to the host namespace under the name they have, and the *)
(* veth pairs with an end in it are destroyed.                             *)
(***************************************************************************)
VethNs(port) ==
    LET k == CHOOSE k \in RoleKeys : VethPort(k[1], k[2]) = port
    IN  IF k[1] = "dst" THEN xcon[k[2]].dstNs
        ELSE IF k[1] = "rem" THEN LocalNs(xcon[k[2]])
        ELSE xcon[k[2]].srcNs

PodDelete(ns) ==
    /\ ns \in nsAlive
    /\ podDeletes < MaxPodDeletes
    /\ podDeletes' = podDeletes + 1
    /\ nsAlive' = nsAlive \ {ns}
    /\ linkLoc' = [d \in Devices |-> IF linkLoc[d] = ns THEN HostNs ELSE linkLoc[d]]
    /\ veths' = [p \in DOMAIN veths |->
                    IF veths[p] = "pod" /\ VethNs(p) = ns THEN "none" ELSE veths[p]]
    /\ trip' = [c \in ConnIDs |-> NoTrip]
    /\ UNCHANGED <<drv, tables, localRemoteMutex, xcon, pc, frame, ovsPorts, flows,
                   linkName, status, reply, tunAcq, created, setupDev, ops,
                   faults>>

Next ==
    \/ \E c \in ConnIDs, f \in 0..4 :
        \/ RemoteRequest_Pick(c, f)
        \/ RemoteRequest_Init(c, f)
        \/ RemoteRequest_Tunnel(c, f)
        \/ RemoteRequest_Ovs(c, f)
        \/ RemoteRequest_Iface(c, f)
        \/ RemoteClose_Lookup(c, f)
        \/ RemoteClose_Ovs(c, f)
        \/ RemoteClose_Iface(c, f)
        \/ RemoteClose_Tunnel(c, f)
        \/ LocalRequest_Pick(c, f)
        \/ LocalRequest_Src(c, f)
        \/ LocalRequest_Dst(c, f)
        \/ LocalRequest_Ovs(c, f)
        \/ LocalClose_Lookup(c, f)
        \/ LocalClose_Ovs(c, f)
        \/ LocalClose_Src(c, f)
        \/ LocalClose_Dst(c, f)
    \/ \E c \in ConnIDs :
        \/ Request_Invalid(c)
        \/ \E connect \in BOOLEAN : InvalidType(c, connect)
    \/ \E ns \in Namespaces : PodDelete(ns)

Spec == Init /\ [][Next]_vars

(***************************************************************************)
(* The tunnel registry driven on its own: for each tunnel name a number of *)
(* createVXLANInterface calls followed by as many deleteVXLANInterface     *)
(* calls.  drv counts the calls that returned no error and the deletions   *)
(* of the tunnel port.                                                     *)
(***************************************************************************)
TunnelNames == {TunnelName(PeerA), TunnelName(PeerB)}

InitTunnel ==
    /\ Quiet
    /\ xcon = [c \in ConnIDs |-> RemoteVeth]
    /\ drv = [kind |-> "tunnel",
              acq |-> [t \in TunnelNames |-> 0],
              rel |-> [t \in TunnelNames |-> 0],
              del |-> [t \in TunnelNames |-> 0]]

Acquire(t, fail) ==
    /\ drv.rel[t] = 0
    /\ drv.acq[t] < MaxAcquires
    /\ LET R == createVXLANInterface(t, fail)
       IN  /\ Fault(IF fail THEN 1 ELSE 0, R.err)
           /\ vxlanInterfaces' = R.vxlanInterfaces
           /\ ovsPorts' = R.ovsPorts
           /\ created' = [created EXCEPT ![t] = IF R.made THEN @ + 1 ELSE @]
           /\ drv' = [drv EXCEPT !.acq[t] = IF R.err THEN @ ELSE @ + 1]
    /\ UNCHANGED <<DevIDMap, PortMap, VfNameMap, localRemoteMutex, xcon, pc,
                   frame, flows, linkLoc, linkName, veths, nsAlive, status,
                   reply, tunAcq, setupDev, ops, podDeletes, trip>>

Release(t, fail) ==
    /\ drv.rel[t] < drv.acq[t]
    /\ LET R == deleteVXLANInterface(t, fail)
       IN  /\ Fault(IF fail THEN 1 ELSE 0, R.err)
           /\ vxlanInterfaces' = R.vxlanInterfaces
           /\ ovsPorts' = R.ovsPorts
           /\ PortMap' = R.PortMap
           /\ drv' = [drv EXCEPT
                        !.rel[t] = IF R.err THEN @ ELSE @ + 1,
                        !.del[t] = IF t \in ovsPorts /\ t \notin R.ovsPorts
                                   THEN @ + 1 ELSE @]
    /\ UNCHANGED <<DevIDMap, VfNameMap, localRemoteMutex, xcon, pc, frame,
                   flows, linkLoc, linkName, veths, nsAlive, status, reply,
                   tunAcq, created, setupDev, ops, podDeletes, trip>>

NextTunnel ==
    \E t \in TunnelNames, fail \in BOOLEAN :
        \/ Acquire(t, fail)
        \/ Release(t, fail)

SpecTunnel == InitTunnel /\ [][NextTunnel]_vars

(***************************************************************************)
(* The device picker driven on its own: a candidate list, the set of       *)
(* representors attached to the bridge and the device whose representor    *)
(* lookup fails (Absent: none) are the inputs; drv holds the result.       *)
(***************************************************************************)
RECURSIVE SeqsUpTo(_)
SeqsUpTo(n) ==
    IF n = 0 THEN {<<>>}
    ELSE SeqsUpTo(n - 1) \cup
         { Append(q, d) : q \in { x \in SeqsUpTo(n - 1) : Len(x) = n - 1 },
                          d \in Devices }

\* the position in the scan at which the lookup of device bad fails, or 0
FirstOf(cands, bad) ==
    IF \E i \in 1..Len(cands) : cands[i] = bad
    THEN CHOOSE i \in 1..Len(cands) :
            cands[i] = bad /\ \A j \in 1..(i - 1) : cands[j] # bad
    ELSE 0

InitPick ==
    /\ Quiet
    /\ xcon = [c \in ConnIDs |-> RemoteVF]
    /\ \E cands \in SeqsUpTo(MaxCands) \ {<<>>}, att \in SUBSET Devices,
          bad \in Devices \cup {Absent} :
            drv = [kind |-> "pick", cands |-> cands, bad |-> bad,
                   attached |-> { Rep(d) : d \in att }, done |-> FALSE,
                   res |-> PickResult("nil", Empty, Empty, FALSE)]

Pick ==
    /\ drv.kind = "pick"
    /\ ~drv.done
    /\ drv' = [drv EXCEPT
                 !.done = TRUE,
                 !.res = PickDeviceAndNetRep(drv.cands, drv.attached,
                                             FirstOf(drv.cands, drv.bad))]
    /\ UNCHANGED <<tables, localRemoteMutex, xcon, pc, frame, host, history, trip>>

NextPick == Pick

SpecPick == InitPick /\ [][NextPick]_vars

(***************************************************************************)
(* The endpoint's device pool (ConnectionEndpoint) driven on its own.      *)
(* pciAddresses maps an address to "in use"; NewConnectionEndpoint fills   *)
(* it from the configured list with every address free.  drv.configured    *)
(* is that list as a set, drv.last the call made last and the address it   *)
(* carried or was given.                                                   *)
(***************************************************************************)
PciAddresses == {"d1", "d2", "d3"}

\* NewConnectionEndpoint: strings.Split(EndpointPciAddresses, ","), all free
NewConnectionEndpoint(configured) == [a \in configured |-> FALSE]

InitPool ==
    /\ Quiet
    /\ xcon = [c \in ConnIDs |-> LocalVF]
    /\ \E configured \in SUBSET PciAddresses :
          drv = [kind |-> "pool", configured |-> configured,
                 pciAddresses |-> NewConnectionEndpoint(configured),
                 calls |-> 0,
                 last |-> [op |-> "none", addr |-> Absent]]

\* ConnectionEndpoint.Request: an invalid request is refused; otherwise some
\* address that is not in use (the range over a Go map visits the keys in no
\* fixed order) is put into the mechanism and marked in use; with no free
\* address the mechanism carries none and the request goes on
ConnectionEndpoint_Request(valid) ==
    /\ drv.kind = "pool"
    /\ drv.calls < MaxPoolCalls
    /\ LET free == { a \in DOMAIN drv.pciAddresses : ~drv.pciAddresses[a] }
       IN  IF ~valid
           THEN drv' = [drv EXCEPT !.calls = @ + 1,
                                   !.last = [op |-> "invalid", addr |-> Absent]]
           ELSE IF free = {}
           THEN drv' = [drv EXCEPT !.calls = @ + 1,
                                   !.last = [op |-> "request", addr |-> Absent]]
           ELSE \E picked \in free :
                  drv' = [drv EXCEPT
                            !.calls = @ + 1,
                            !.pciAddresses = Put(drv.pciAddresses, picked, TRUE),
                            !.last = [op |-> "request", addr |-> picked]]
    /\ UNCHANGED <<tables, localRemoteMutex, xcon, pc, frame, host, history, trip>>

\* ConnectionEndpoint.Close: the address the connection's mechanism carries
\* (Absent: the parameter is not there) is marked free
ConnectionEndpoint_Close(pciAddress) ==
    /\ drv.kind = "pool"
    /\ drv.calls < MaxPoolCalls
    /\ drv' = [drv EXCEPT
                 !.calls = @ + 1,
                 !.pciAddresses = IF pciAddress # Absent
                                  THEN Put(drv.pciAddresses, pciAddress, FALSE)
                                  ELSE drv.pciAddresses,
                 !.last = [op |-> "close", addr |-> pciAddress]]
    /\ UNCHANGED <<tables, localRemoteMutex, xcon, pc, frame, host, history, trip>>

NextPool ==
    \/ \E valid \in BOOLEAN : ConnectionEndpoint_Request(valid)
    \/ \E pciAddress \in PciAddresses \cup {Absent} : ConnectionEndpoint_Close(pciAddress)

SpecPool == InitPool /\ [][NextPool]_vars

(***************************************************************************)
(* The namespace-switching functions driven on their own: SetupVF,         *)
(* ResetVF and setupLinkInNs, called by the handlers of two connections    *)
(* that the Go scheduler runs on OS threads.  drv.threadNs is the active   *)
(* network namespace of each thread; drv.g is, per handler, the function   *)
(* it is in (fn), the path of the handler (path), the thread it runs on    *)
(* (m), its position (at), the handle netns.Get gave it (hostNetns), the   *)
(* pod namespace it works for (target), where the link is (link), the      *)
(* thread and namespace it entered the function with (entryM, entryNs)     *)
(* and what the function returned (ret).                                   *)
(***************************************************************************)
Threads == {"t1", "t2"}

\* createRemoteConnection / deleteRemoteConnection call runtime.LockOSThread
\* first and unlock on return; createLocalConnection / deleteLocalConnection
\* take localRemoteMutex only
LockOSThread(path) == path = "remote"

NoCall ==
    [fn |-> "none", path |-> "none", m |-> "t1", at |-> "idle",
     hostNetns |-> HostNs, target |-> HostNs, link |-> "none",
     entryM |-> "t1", entryNs |-> HostNs, ret |-> "none"]

InitNs ==
    /\ Quiet
    /\ xcon = [c \in ConnIDs |-> LocalVF]
    /\ drv = [kind |-> "ns",
              threadNs |-> [t \in Threads |-> HostNs],
              g |-> [c \in ConnIDs |-> NoCall],
              calls |-> 0,
              faults |-> 0]

\* the threads a handler other than c is locked to
LockedThreads(c) ==
    { drv.g[o].m : o \in { x \in ConnIDs \ {c} :
                             drv.g[x].at # "idle" /\ LockOSThread(drv.g[x].path) } }

\* a handler on the given path enters one of the functions, on whatever
\* thread the scheduler runs it on
NsCall(c, path, fn, m, link) ==
    /\ drv.kind = "ns"
    /\ fn = "setupLinkInNs" => link = "target"
    /\ drv.calls < MaxNsCalls
    /\ drv.g[c].at = "idle"
    /\ m \notin LockedThreads(c)
    \* the thread a handler locks itself to runs no other goroutine
    /\ LockOSThread(path) =>
          \A o \in ConnIDs \ {c} : drv.g[o].at # "idle" => drv.g[o].m # m
    /\ drv' = [drv EXCEPT
                 !.calls = @ + 1,
                 !.g[c] = [fn |-> fn, path |-> path, m |-> m, at |-> "get",
                           hostNetns |-> HostNs,
                           target |-> IF c = "c1" THEN "n1" ELSE "n2",
                           link |-> link, entryM |-> m,
                           entryNs |-> drv.threadNs[m], ret |-> "none"]]
    /\ UNCHANGED <<tables, localRemoteMutex, xcon, pc, frame, host, history, trip>>

\* the scheduler moves a goroutine that is not locked to its thread
NsMigrate(c, m) ==
    /\ drv.kind = "ns"
    /\ drv.g[c].at # "idle"
    /\ ~LockOSThread(drv.g[c].path)
    /\ m # drv.g[c].m
    /\ m \notin LockedThreads(c)
    /\ drv' = [drv EXCEPT !.g[c].m = m]
    /\ UNCHANGED <<tables, localRemoteMutex, xcon, pc, frame, host, history, trip>>

\* the handler's record and its thread's namespace after one step
NsStepResult(g, ns, fail) ==
    LET Ret(r) == [NoCall EXCEPT !.ret = r]
    IN
    IF g.at = "get"
    THEN \* netns.Get
         IF fail THEN <<Ret("err"), ns>>
         ELSE <<[g EXCEPT !.hostNetns = ns,
                          !.at = IF g.fn = "setupLinkInNs" THEN "set"
                                 ELSE "search"], ns>>
    ELSE IF g.at = "search" /\ g.fn = "SetupVF"
    THEN \* GetNsHandleFromInode, then GetLink(.., hostNetns, targetNetns):
         \* each search enters the namespace it looks in
         IF fail THEN <<[g EXCEPT !.at = "restore", !.ret = "err"], ns>>
         ELSE IF g.link = "host" THEN <<[g EXCEPT !.at = "set"], g.hostNetns>>
         ELSE IF g.link = "target" THEN <<[g EXCEPT !.at = "set"], g.target>>
         ELSE <<[g EXCEPT !.at = "restore", !.ret = "err"], g.target>>
    ELSE IF g.at = "search"
    THEN \* ResetVF: GetLink(.., hostNetns), SetName, return
         IF fail \/ g.link # "host" THEN <<Ret("err"), g.hostNetns>>
         ELSE <<Ret("ok"), g.hostNetns>>
    ELSE IF g.at = "set"
    THEN \* netns.Set(targetNetns) / netns.Set(containerNs)
         IF fail
         THEN IF g.fn = "setupLinkInNs" THEN <<Ret("err"), ns>>
              ELSE <<[g EXCEPT !.at = "restore", !.ret = "err"], ns>>
         ELSE <<[g EXCEPT !.at = "config"], g.target>>
    ELSE IF g.at = "config"
    THEN \* the configuration of the link
         <<[g EXCEPT !.at = "restore", !.ret = IF fail THEN "err" ELSE "ok"], ns>>
    ELSE \* "restore", the deferred netns.Set(hostNetns): a failure is logged
         <<Ret(g.ret), IF fail THEN ns ELSE g.hostNetns>>

NsStep(c, fail) ==
    /\ drv.kind = "ns"
    /\ drv.g[c].at # "idle"
    /\ fail => drv.faults < MaxFaults
    /\ LET g == drv.g[c]
           R == NsStepResult(g, drv.threadNs[g.m], fail)
       IN  drv' = [drv EXCEPT !.g[c] = R[1],
                              !.threadNs[g.m] = R[2],
                              !.faults = IF fail THEN @ + 1 ELSE @]
    /\ UNCHANGED <<tables, localRemoteMutex, xcon, pc, frame, host, history, trip>>

NextNs ==
    \/ \E c \in ConnIDs, path \in {"local", "remote"}, fn \in {"SetupVF", "ResetVF", "setupLinkInNs"},
          m \in Threads, link \in {"host", "target", "none"} :
          NsCall(c, path, fn, m, link)
    \/ \E c \in ConnIDs, m \in Threads : NsMigrate(c, m)
    \/ \E c \in ConnIDs, fail \in BOOLEAN : NsStep(c, fail)

SpecNs == InitNs /\ [][NextNs]_vars

(***************************************************************************)
(* The tunnel registry under concurrent callers: createVXLANInterface and  *)
(* deleteVXLANInterface statement by statement, each caller being the      *)
(* handler of one connection.  drv.mutex is the holder of                  *)
(* vxlanInterfacesMutex, drv.call the position of each caller (op, at, the *)
(* tunnel name t); drv.net counts, per name, the calls that have taken     *)
(* effect (creations minus releases) and drv.made the runs of newVXLAN     *)
(* since the name last had no entry.                                       *)
(***************************************************************************)
\* the caller does not wait for the mutex
vxlanInterfacesMutex_Lock_NoWait(holder) == TRUE

\* c.vxlanInterfacesMutex.Lock(): the caller goes on once nobody holds it
vxlanInterfacesMutex_Lock(holder) == holder = "free"

NoRegCall == [op |-> "none", at |-> "idle", t |-> TunnelName(PeerA)]

InitRegistry ==
    /\ Quiet
    /\ xcon = [c \in ConnIDs |-> RemoteVeth]
    /\ drv = [kind |-> "registry",
              mutex |-> "free",
              call |-> [c \in ConnIDs |-> NoRegCall],
              calls |-> 0,
              faults |-> 0,
              net |-> [t \in TunnelNames |-> 0],
              made |-> [t \in TunnelNames |-> 0]]

RegUnchanged ==
    UNCHANGED <<DevIDMap, VfNameMap, localRemoteMutex, xcon, pc, frame, flows,
                linkLoc, linkName, veths, nsAlive, history, trip>>

\* a handler calls createVXLANInterface ("create") or deleteVXLANInterface
\* ("delete") for a tunnel name
RegCall(c, op, t) ==
    /\ drv.kind = "registry"
    /\ drv.calls < MaxRegCalls
    /\ drv.call[c].at = "idle"
    /\ drv' = [drv EXCEPT !.calls = @ + 1,
                          !.call[c] = [op |-> op, at |-> "lock", t |-> t]]
    /\ UNCHANGED <<vxlanInterfaces, ovsPorts, PortMap>>
    /\ RegUnchanged

\* vxlan.go lines 50 and 78
RegLock(c) ==
    /\ drv.kind = "registry"
    /\ drv.call[c].at = "lock"
    /\ vxlanInterfacesMutex_Lock(drv.mutex)
    /\ drv' = [drv EXCEPT !.mutex = c, !.call[c].at = "read"]
    /\ UNCHANGED <<vxlanInterfaces, ovsPorts, PortMap>>
    /\ RegUnchanged

\* lines 52 and 80: the test of the entry
RegRead(c) ==
    /\ drv.kind = "registry"
    /\ drv.call[c].at = "read"
    /\ LET t == drv.call[c].t
           port == IF drv.call[c].op = "create" THEN ~Has(vxlanInterfaces, t)
                   ELSE Get(vxlanInterfaces, t, 0) = 1
       IN  drv' = [drv EXCEPT !.call[c].at = IF port THEN "port" ELSE "count"]
    /\ UNCHANGED <<vxlanInterfaces, ovsPorts, PortMap>>
    /\ RegUnchanged

\* lines 53-55: newVXLAN ("--may-exist add-port"); lines 81-85: deleteVXLAN
\* and the deletion of the binding and of the entry
RegPort(c, fail) ==
    /\ drv.kind = "registry"
    /\ drv.call[c].at = "port"
    /\ fail => drv.faults < MaxFaults
    /\ LET t == drv.call[c].t
       IN  IF drv.call[c].op = "create"
           THEN /\ ovsPorts' = IF fail THEN ovsPorts ELSE ovsPorts \cup {t}
                /\ drv' = [drv EXCEPT
                             !.call[c].at = IF fail THEN "unlock" ELSE "count",
                             !.faults = IF fail THEN @ + 1 ELSE @,
                             !.made[t] = IF fail THEN @ ELSE @ + 1]
                /\ UNCHANGED <<vxlanInterfaces, PortMap>>
           ELSE IF fail \/ t \notin ovsPorts
           THEN /\ drv' = [drv EXCEPT !.call[c].at = "unlock",
                                      !.faults = IF fail THEN @ + 1 ELSE @]
                /\ UNCHANGED <<vxlanInterfaces, ovsPorts, PortMap>>
           ELSE /\ ovsPorts' = ovsPorts \ {t}
                /\ PortMap' = Del(PortMap, t)
                /\ vxlanInterfaces' = Del(vxlanInterfaces, t)
                /\ drv' = [drv EXCEPT !.call[c].at = "unlock",
                                      !.net[t] = @ - 1,
                                      !.made[t] = 0]
    /\ RegUnchanged

\* line 57: c.vxlanInterfaces[name] += 1; lines 87-89: -= 1 when not zero
RegCount(c) ==
    /\ drv.kind = "registry"
    /\ drv.call[c].at = "count"
    /\ LET t == drv.call[c].t
           n == Get(vxlanInterfaces, t, 0)
       IN  IF drv.call[c].op = "create"
           THEN /\ vxlanInterfaces' = Put(vxlanInterfaces, t, n + 1)
                /\ drv' = [drv EXCEPT !.call[c].at = "unlock", !.net[t] = @ + 1]
           ELSE IF n # 0
           THEN /\ vxlanInterfaces' = Put(vxlanInterfaces, t, n - 1)
                /\ drv' = [drv EXCEPT !.call[c].at = "unlock", !.net[t] = @ - 1]
           ELSE /\ vxlanInterfaces' = vxlanInterfaces
                /\ drv' = [drv EXCEPT !.call[c].at = "unlock"]
    /\ UNCHANGED <<ovsPorts, PortMap>>
    /\ RegUnchanged

\* the deferred Unlock and the return
RegUnlock(c) ==
    /\ drv.kind = "registry"
    /\ drv.call[c].at = "unlock"
    /\ drv' = [drv EXCEPT !.mutex = "free", !.call[c] = NoRegCall]
    /\ UNCHANGED <<vxlanInterfaces, ovsPorts, PortMap>>
    /\ RegUnchanged

NextRegistry ==
    \/ \E c \in ConnIDs, op \in {"create", "delete"}, t \in TunnelNames :
          RegCall(c, op, t)
    \/ \E c \in ConnIDs : RegLock(c)
    \/ \E c \in ConnIDs : RegRead(c)
    \/ \E c \in ConnIDs, fail \in BOOLEAN : RegPort(c, fail)
    \/ \E c \in ConnIDs : RegCount(c)
    \/ \E c \in ConnIDs : RegUnlock(c)

SpecRegistry == InitRegistry /\ [][NextRegistry]_vars

(***************************************************************************)
(* The locks of a call: connectOrDisconnect takes the lock of the          *)
(* monitoring device list when metrics are enabled, the local path takes   *)
(* localRemoteMutex, the tunnel functions of the remote path take          *)
(* vxlanInterfacesMutex; every Unlock is deferred.  drv.holder is the      *)
(* holder of each lock, drv.h the position of the handler of each          *)
(* connection (at), its path and whether it is a Request (connect) and     *)
(* what it returned (err); drv.metrics is common.MetricsEnabled.           *)
(***************************************************************************)
Locks == {"devices", "localRemoteMutex", "vxlanInterfacesMutex"}

NoLockCall == [at |-> "idle", path |-> "none", connect |-> FALSE, err |-> FALSE]

\* the locks are given back on the success path only
Unlock_OnSuccess(holder, c, locks, err) ==
    IF err THEN holder
    ELSE [l \in Locks |-> IF l \in locks /\ holder[l] = c THEN "free" ELSE holder[l]]

\* the deferred Unlock calls of a function that returns, with or without
\* an error
Unlock(holder, c, locks, err) ==
    [l \in Locks |-> IF l \in locks /\ holder[l] = c THEN "free" ELSE holder[l]]

InitLocks ==
    /\ Quiet
    /\ xcon = [c \in ConnIDs |-> LocalVeth]
    /\ \E metrics \in BOOLEAN :
          drv = [kind |-> "locks",
                 metrics |-> metrics,
                 holder |-> [l \in Locks |-> "free"],
                 h |-> [c \in ConnIDs |-> NoLockCall],
                 calls |-> 0,
                 faults |-> 0]

\* the body is entered without the device-list lock
LockCall_Unlocked(c, path, connect) ==
    /\ drv.kind = "locks"
    /\ drv.calls < MaxLockCalls
    /\ drv.h[c].at = "idle"
    /\ drv' = [drv EXCEPT
                 !.calls = @ + 1,
                 !.h[c] = [at |-> "sanity", path |-> path, connect |-> connect,
                           err |-> FALSE]]
    /\ UNCHANGED <<tables, localRemoteMutex, xcon, pc, frame, host, history, trip>>

\* Request or Close arrives for a connection
LockCall(c, path, connect) ==
    /\ drv.kind = "locks"
    /\ drv.calls < MaxLockCalls
    /\ drv.h[c].at = "idle"
    /\ drv' = [drv EXCEPT
                 !.calls = @ + 1,
                 !.h[c] = [at |-> IF drv.metrics THEN "devices" ELSE "sanity",
                           path |-> path, connect |-> connect, err |-> FALSE]]
    /\ UNCHANGED <<tables, localRemoteMutex, xcon, pc, frame, host, history, trip>>

\* the handler and the locks after the handler's next statement; fail: the
\* external primitive of that statement returns an error
LockStepResult(h, holder, c, fail) ==
    LET Ret(e) == <<[NoLockCall EXCEPT !.err = e],
                    Unlock(holder, c, {"devices", "localRemoteMutex"}, e)>>
        Take(l, next) == <<[h EXCEPT !.at = next], [holder EXCEPT ![l] = c]>>
    IN
    IF h.at = "devices"
    THEN \* ovsforwarder.go 101-104
         Take("devices", "sanity")
    ELSE IF h.at = "sanity"
    THEN \* lines 106-117: SanityCheckConnectionType and the choice of the path
         IF fail THEN Ret(TRUE)
         ELSE <<[h EXCEPT !.at = IF h.path = "local" THEN "localRemoteMutex"
                                 ELSE "remote_pre"], holder>>
    ELSE IF h.at = "localRemoteMutex"
    THEN \* local.go 117-118 and 176-177
         Take("localRemoteMutex", "local_work")
    ELSE IF h.at = "local_work"
    THEN \* the body of createLocalConnection / deleteLocalConnection
         Ret(fail /\ h.connect)
    ELSE IF h.at = "remote_pre"
    THEN \* part_002 87-101: pick and initLocalInterface; 144-169: the lookups
         \* and the release of the bridge ports and of the interface
         IF fail /\ h.connect THEN Ret(TRUE)
         ELSE <<[h EXCEPT !.at = "vxlanInterfacesMutex"], holder>>
    ELSE IF h.at = "vxlanInterfacesMutex"
    THEN \* vxlan.go 50-51 and 78-79
         Take("vxlanInterfacesMutex", "tunnel")
    ELSE IF h.at = "tunnel"
    THEN \* the body of createVXLANInterface / deleteVXLANInterface and its
         \* deferred Unlock
         <<[h EXCEPT !.at = "remote_post", !.err = fail],
           Unlock(holder, c, {"vxlanInterfacesMutex"}, fail)>>
    ELSE \* "remote_post", part_002 103-127: the error of the tunnel, then
         \* SetupOvSConnection, setupLocalInterface and the record; 171-179
         IF h.connect THEN Ret(h.err \/ fail) ELSE Ret(FALSE)

\* the lock the handler is about to take, if any
WaitsFor(h) == IF h.at \in Locks THEN h.at ELSE "none"

LockStep(c, fail) ==
    /\ drv.kind = "locks"
    /\ drv.h[c].at # "idle"
    /\ WaitsFor(drv.h[c]) # "none" => /\ drv.holder[WaitsFor(drv.h[c])] = "free"
                                      /\ ~fail
    /\ fail => drv.faults < MaxFaults
    /\ LET R == LockStepResult(drv.h[c], drv.holder, c, fail)
       IN  drv' = [drv EXCEPT !.h[c] = R[1], !.holder = R[2],
                              !.faults = IF fail THEN @ + 1 ELSE @]
    /\ UNCHANGED <<tables, localRemoteMutex, xcon, pc, frame, host, history, trip>>

NextLocks ==
    \/ \E c \in ConnIDs, path \in {"local", "remote"}, connect \in BOOLEAN :
          LockCall(c, path, connect)
    \/ \E c \in ConnIDs, fail \in BOOLEAN : LockStep(c, fail)

SpecLocks == InitLocks /\ [][NextLocks]_vars

\* the scheduler runs every goroutine that can run
SpecLocksFair ==
    SpecLocks /\ \A c \in ConnIDs : WF_vars(\E fail \in BOOLEAN : LockStep(c, fail))

(***************************************************************************)
(* The ofport lookup after add-port, driven on its own.  drv.answers are   *)
(* the answers of the bridge to the successive "get interface ofport"      *)
(* queries: QueryFails (ovs-vsctl fails), 0 (the port is not registered    *)
(* yet) or a port number; drv.res is what GetInterfaceOfPort returned and  *)
(* the number of queries it made.                                          *)
(***************************************************************************)
\* count = 5 of GetInterfaceOfPort
RetryCount == 5
\* the answer of a query in which ovs-vsctl fails
QueryFails == -1

RECURSIVE GetInterfaceOfPort_Loop(_, _, _)
\* the loop of GetInterfaceOfPort from its i-th query on, count tries left
GetInterfaceOfPort_Loop(answers, i, count) ==
    IF count = 0
    THEN [portNo |-> 0, err |-> FALSE, queries |-> i - 1]
    ELSE IF answers[i] = QueryFails
    THEN [portNo |-> -1, err |-> TRUE, queries |-> i]
    ELSE IF answers[i] = 0
    THEN GetInterfaceOfPort_Loop(answers, i + 1, count - 1)
    ELSE [portNo |-> answers[i], err |-> FALSE, queries |-> i]

InitOfport ==
    /\ Quiet
    /\ xcon = [c \in ConnIDs |-> LocalVeth]
    /\ \E answers \in [1..MaxAnswers -> {QueryFails, 0, 7}] :
          drv = [kind |-> "ofport", answers |-> answers, done |-> FALSE,
                 aborted |-> FALSE,
                 res |-> [portNo |-> 0, err |-> FALSE, queries |-> 0]]

\* SetupLocalOvSConnection after its two add-port calls: the lookup of the
\* source port; on an error the setup returns it, otherwise (the lookup of
\* the destination port answering 7 at once) the two flows are added and
\* the bindings stored
OfportSetup ==
    /\ drv.kind = "ofport"
    /\ ~drv.done
    /\ LET R == GetInterfaceOfPort_Loop(drv.answers, 1, RetryCount)
       IN  /\ drv' = [drv EXCEPT !.done = TRUE, !.res = R, !.aborted = R.err]
           /\ ovsPorts' = ovsPorts \cup {VethPort("src", "c1"), VethPort("dst", "c1")}
           /\ IF R.err
              THEN UNCHANGED <<flows, PortMap>>
              ELSE /\ flows' = AddFlow(AddFlow(flows, Flow(R.portNo, 0, 0, 7)),
                                       Flow(7, 0, 0, R.portNo))
                   /\ PortMap' = Put(Put(PortMap, VethPort("src", "c1"), R.portNo),
                                     VethPort("dst", "c1"), 7)
    /\ UNCHANGED <<DevIDMap, vxlanInterfaces, VfNameMap, localRemoteMutex, xcon,
                   pc, frame, linkLoc, linkName, veths, nsAlive, history, trip>>

SpecOfport == InitOfport /\ [][OfportSetup]_vars

(***************************************************************************)
(* Representor discovery driven on its own.  drv.answers are the results   *)
(* of the successive sriovnet.GetNetDevicesFromPci calls: LookupFails or   *)
(* the number of net devices found; drv.maxRetries is the retry budget,    *)
(* drv.later whether the uplink, VF index and representor lookups that     *)
(* follow the loop succeed; drv.res is what the function returned and the  *)
(* number of device lookups it made.                                       *)
(***************************************************************************)
LookupFails == -1
RepResult(rep, err, lookups) == [rep |-> rep, err |-> err, lookups |-> lookups]

RECURSIVE GetNetRepresentor_Loop_NoError(_, _, _, _)
RECURSIVE GetNetRepresentor_Loop(_, _, _, _)

\* the last failed try leaves the loop without an error
GetNetRepresentor_Loop_NoError(answers, i, maxRetries, later) ==
    IF maxRetries <= 0
    THEN IF later THEN RepResult(Rep("d1"), FALSE, i - 1)
         ELSE RepResult(Empty, TRUE, i - 1)
    ELSE IF answers[i] = LookupFails THEN RepResult(Empty, TRUE, i)
    ELSE IF answers[i] # 1
    THEN GetNetRepresentor_Loop_NoError(answers, i + 1, maxRetries - 1, later)
    ELSE IF later THEN RepResult(Rep("d1"), FALSE, i)
    ELSE RepResult(Empty, TRUE, i)

\* the loop of GetNetRepresentorWithRetries from its i-th lookup on, and the
\* lookups that follow it
GetNetRepresentor_Loop(answers, i, maxRetries, later) ==
    IF maxRetries <= 0
    THEN IF later THEN RepResult(Rep("d1"), FALSE, i - 1)
         ELSE RepResult(Empty, TRUE, i - 1)
    ELSE IF answers[i] = LookupFails THEN RepResult(Empty, TRUE, i)
    ELSE IF answers[i] # 1 /\ maxRetries - 1 = 0 THEN RepResult(Empty, TRUE, i)
    ELSE IF answers[i] # 1
    THEN GetNetRepresentor_Loop(answers, i + 1, maxRetries - 1, later)
    ELSE IF later THEN RepResult(Rep("d1"), FALSE, i)
    ELSE RepResult(Empty, TRUE, i)

GetNetRepresentorWithRetries(answers, maxRetries, later) ==
    IF maxRetries = 0 THEN RepResult(Empty, TRUE, 0)
    ELSE GetNetRepresentor_Loop(answers, 1, maxRetries, later)

InitRep ==
    /\ Quiet
    /\ xcon = [c \in ConnIDs |-> LocalVF]
    /\ \E answers \in [1..MaxRetries -> {LookupFails, 0, 1, 2}],
          maxRetries \in 0..MaxRetries, later \in BOOLEAN :
          drv = [kind |-> "rep", answers |-> answers, maxRetries |-> maxRetries,
                 later |-> later, done |-> FALSE,
                 res |-> RepResult(Empty, FALSE, 0)]

RepLookup ==
    /\ drv.kind = "rep"
    /\ ~drv.done
    /\ drv' = [drv EXCEPT
                 !.done = TRUE,
                 !.res = GetNetRepresentorWithRetries(drv.answers, drv.maxRetries,
                                                      drv.later)]
    /\ UNCHANGED <<tables, localRemoteMutex, xcon, pc, frame, host, history, trip>>

SpecRep == InitRep /\ [][RepLookup]_vars

(***************************************************************************)
(* The tunnel name of a peer, driven on its own.  The two connections are  *)
(* remote cross-connects to peers whose IPv4 addresses are drawn from the  *)
(* addresses with octets 1 and 11; each acquires the tunnel to its peer    *)
(* once (tunAcq).                                                          *)
(***************************************************************************)
InitPeers ==
    /\ Quiet
    /\ \E ip \in [ConnIDs -> [1..4 -> {1, 11}]] :
          xcon = [c \in ConnIDs |->
                    XCon(KernelLocal, VxlanRemote, <<>>, <<>>, "n1", "n1", ip[c])]
    /\ drv = [kind |-> "peers"]

\* createVXLANInterface for the peer of c: the name from the remote IP, then
\* the registry under that name
PeerAcquire(c) ==
    /\ drv.kind = "peers"
    /\ tunAcq[c] = 0
    /\ LET R == createVXLANInterface(Tunnel(c), FALSE)
       IN  /\ vxlanInterfaces' = R.vxlanInterfaces
           /\ ovsPorts' = R.ovsPorts
    /\ tunAcq' = [tunAcq EXCEPT ![c] = 1]
    /\ UNCHANGED <<drv, DevIDMap, PortMap, VfNameMap, localRemoteMutex, xcon, pc,
                   frame, flows, linkLoc, linkName, veths, nsAlive, status,
                   reply, created, setupDev, ops, faults, podDeletes, trip>>

SpecPeers == InitPeers /\ [][\E c \in ConnIDs : PeerAcquire(c)]_vars

(***************************************************************************)
(* Properties                                                              *)
(***************************************************************************)
\* the step is taken by the handler of connection c
Step(c) == ops'[c] # ops[c] \/ pc'[c] # pc[c]
RemoteClosing == {"rd_ovs", "rd_iface", "rd_tunnel"}
LocalClosing == {"ld_ovs", "ld_src", "ld_dst"}
Other(c) == CHOOSE x \in ConnIDs : x # c
\* the allocation records that name a device
Allocations == { k \in DOMAIN DevIDMap : DevIDMap[k] # Empty }

\* C1: no device identifier is the value of two allocation records at the
\* same time, and no device is attached by SetupVF for two connection roles
\* at once, under any interleaving of Request and Close calls.
C1_DeviceHeldOnce ==
    /\ \A k1 \in Allocations, k2 \in Allocations :
            k1 # k2 => DevIDMap[k1] # DevIDMap[k2]
    /\ \A r1 \in RoleKeys, r2 \in RoleKeys :
            r1 # r2 /\ setupDev[r1] # Empty => setupDev[r1] # setupDev[r2]

\* C2: whenever a Request attached a device for a role of a connection,
\* whether it then returned success or failed at a later step, the Close of
\* that connection finds the device through the allocation record: it never
\* takes the veth path for a role that holds a device.
C2_CloseFindsAttachedDevice ==
    \A c \in ConnIDs :
        /\ pc[c] \in RemoteClosing /\ setupDev[<<"rem", c>>] # Empty
              => frame[c].dev1 = setupDev[<<"rem", c>>]
        /\ pc[c] \in LocalClosing /\ setupDev[<<"src", c>>] # Empty
              => frame[c].dev1 = setupDev[<<"src", c>>]
        /\ pc[c] \in LocalClosing /\ setupDev[<<"dst", c>>] # Empty
              => frame[c].dev2 = setupDev[<<"dst", c>>]

\* C3: the count of a tunnel in the registry equals the acquisitions of it
\* that connections made and have not yet released by a Close, and the tunnel
\* port is on the bridge as long as a connection has such an acquisition;
\* also when Close is called for a connection that never acquired the tunnel.
C3_TunnelCountIsItsUsers ==
    /\ \A t \in {TunnelName(PeerA), TunnelName(PeerB)} :
          Get(vxlanInterfaces, t, 0) =
              (IF TunnelName(xcon["c1"].peer) = t THEN tunAcq["c1"] ELSE 0)
            + (IF TunnelName(xcon["c2"].peer) = t THEN tunAcq["c2"] ELSE 0)
    /\ \A c \in ConnIDs :
          tunAcq[c] > 0 => TunnelName(xcon[c].peer) \in ovsPorts

\* C4: for one tunnel name, M successful Acquire calls followed by M
\* successful Release calls delete the tunnel port exactly once, in the M-th
\* Release, and leave no registry entry; before the M-th Release the entry
\* counts the acquisitions outstanding and the port is on the bridge.
C4_LastReleaseDeletesOnce ==
    drv.kind = "tunnel" =>
        \A t \in DOMAIN drv.acq :
            LET a == drv.acq[t]
                r == drv.rel[t]
            IN  /\ drv.del[t] = (IF a > 0 /\ r = a THEN 1 ELSE 0)
                /\ r = a => ~Has(vxlanInterfaces, t) /\ t \notin ovsPorts
                /\ r < a => Get(vxlanInterfaces, t, 0) = a - r /\ t \in ovsPorts

\* C4, the case: a tunnel name acquired MaxAcquires times and released as often
C4_AllReleased ==
    /\ drv.kind = "tunnel"
    /\ \E t \in DOMAIN drv.acq :
          drv.acq[t] = MaxAcquires /\ drv.rel[t] = MaxAcquires /\ drv.del[t] = 1

\* two successful remote Requests of two connections to one peer, nothing else
TwoRemoteRequestsDone ==
    /\ \A c \in ConnIDs :
          /\ Path(xcon[c]) = "remote"
          /\ pc[c] = "idle"
          /\ status[c] = "connected"
          /\ ops[c] = 1
    /\ xcon["c1"].peer = xcon["c2"].peer

\* C5: when the successful remote Requests of two different connections to
\* the same peer address have been applied, the registry holds one entry for
\* that peer with count 2 and the tunnel port was created exactly once.
C5_SharedTunnelCountedTwice ==
    TwoRemoteRequestsDone =>
        LET t == TunnelName(xcon["c1"].peer)
        IN  /\ Get(vxlanInterfaces, t, 0) = 2
            /\ DOMAIN vxlanInterfaces = {t}
            /\ created[t] = 1
            /\ t \in ovsPorts

\* C5, the case: both Requests returned success and the entry counts 2
C5_TwoConnected ==
    /\ TwoRemoteRequestsDone
    /\ Get(vxlanInterfaces, TunnelName(xcon["c1"].peer), 0) = 2

\* C6: a successful Request followed by its Close, with no primitive failing
\* and no step of anything else between the start of the Request and the
\* return of the Close, leaves DevIDMap, PortMap, the tunnel registry and
\* VfNameMap with the contents they had when the Request started.
C6_RoundTripRestoresTables ==
    \A c \in ConnIDs : trip[c].phase = "closed" => tables = trip[c].tbl

\* the candidate list the Request of c scans first, and the lists with no
\* candidate whose representor is off the bridge
Exhausted(cands) ==
    cands # <<>> /\ \A i \in 1..Len(cands) : Rep(cands[i]) \in ovsPorts
RequestStarts(c) ==
    /\ ops'[c] # ops[c]
    /\ pc'[c] \notin RemoteClosing \cup LocalClosing

\* C7: the allocation records that name a device are never more than the
\* devices there are, and a Request that carries a candidate list of which no
\* candidate is free fails with the no-device-available error and allocates
\* nothing.
C7_PoolNeverExceeded ==
    [][ /\ Cardinality({ k \in DOMAIN DevIDMap' : DevIDMap'[k] # Empty })
                <= Cardinality(Devices)
        /\ \A c \in ConnIDs :
              /\ RequestStarts(c)
              /\ faults' = faults
              /\ pc'[c] = "idle" => status'[c] \in RequestFailures
              /\ IsValid(xcon[c])
              /\ Path(xcon[c]) = "remote" => Direction(xcon[c]) # "invalid"
              /\ \/ (Path(xcon[c]) = "remote" /\ Exhausted(LocalC(xcon[c])))
                 \/ (Path(xcon[c]) = "local" /\ (Exhausted(xcon[c].srcC) \/ Exhausted(xcon[c].dstC)))
              => /\ pc'[c] = "idle"
                 /\ status'[c] = "none available"
                 /\ tables' = tables
                 /\ host' = host ]_vars

\* the candidates of the driven picker that can be allocated: the lookup of
\* the representor succeeds and the representor is not on the bridge
Viable == { i \in 1..Len(drv.cands) :
              drv.cands[i] # drv.bad /\ Rep(drv.cands[i]) \notin drv.attached }

\* C8: the picker returns the first candidate, in list order, whose
\* representor can be used and is not attached to the bridge, and fails only
\* when no candidate is such; candidates before it are skipped.
C8_FirstViableCandidate ==
    drv.kind = "pick" /\ drv.done =>
        IF Viable = {}
        THEN drv.res.err # "nil"
        ELSE LET first == CHOOSE i \in Viable : \A j \in Viable : i <= j
             IN  /\ drv.res.err = "nil"
                 /\ drv.res.dev = drv.cands[first]
                 /\ drv.res.rep = Rep(drv.cands[first])

\* connection c returns from a Close in which it looked up device d, and the
\* other connection neither holds nor is about to hold d
ClosedDevice(c, d) ==
    /\ d # Empty
    /\ pc[c] \in {"rd_tunnel", "ld_dst"}
    /\ pc'[c] = "idle"
    /\ d \in {frame[c].dev1, frame[c].dev2}
    /\ d \notin {frame[Other(c)].dev1, frame[Other(c)].dev2}
    /\ \A r \in Roles : Get(DevIDMap, DevKey(r, Other(c)), Empty) # d

\* C9: when the Close of a connection that had allocated device d returns,
\* d can be allocated again: no allocation record names it and its
\* representor is not attached to the bridge, whichever teardown steps failed.
C9_DeviceViableAfterClose ==
    [][ \A c \in ConnIDs, d \in Devices :
            ClosedDevice(c, d) =>
                /\ \A k \in DOMAIN DevIDMap' : DevIDMap'[k] # d
                /\ Rep(d) \notin ovsPorts' ]_vars

\* connection c has no allocation record and no tunnel acquisition
HoldsNothing(c) ==
    /\ \A r \in Roles : ~Has(DevIDMap, DevKey(r, c))
    /\ tunAcq[c] = 0
\* the ports a connection's handlers name from its identifier alone
OwnPorts(c) == { VethPort(r, c) : r \in Roles }
CloseStep(c) ==
    /\ Step(c)
    /\ \/ pc[c] \in RemoteClosing \cup LocalClosing
       \/ pc'[c] \in RemoteClosing \cup LocalClosing

\* C10: a Close of a connection that holds no allocation record and no
\* tunnel acquisition (a second Close, a Close after a failed Request)
\* changes no allocation record, no tunnel count, no port binding of a port
\* that is not the connection's own, and no port or flow on the bridge that
\* is not the connection's own.
C10_CloseOfNothingChangesNothing ==
    [][ \A c \in ConnIDs :
            CloseStep(c) /\ HoldsNothing(c) =>
                /\ DevIDMap' = DevIDMap
                /\ vxlanInterfaces' = vxlanInterfaces
                /\ \A p \in DOMAIN PortMap \ OwnPorts(c) :
                      Has(PortMap', p) /\ PortMap'[p] = PortMap[p]
                /\ ovsPorts' \ OwnPorts(c) = ovsPorts \ OwnPorts(c)
                /\ { x \in flows' : x.inp \notin { OfPort(p) : p \in OwnPorts(c) } }
                      = { x \in flows : x.inp \notin { OfPort(p) : p \in OwnPorts(c) } } ]_vars

\* C11: releasing a tunnel name that has no entry in the registry returns no
\* error, deletes no port of the bridge and leaves the registry and the
\* port-binding cache as they are.
C11_ReleaseOfAbsentKeyIsNoOp ==
    [][ \A c \in ConnIDs :
            /\ pc[c] = "rd_tunnel"
            /\ pc'[c] = "idle"
            /\ ~Has(vxlanInterfaces, Tunnel(c))
            => /\ ~deleteVXLANInterface(Tunnel(c), FALSE).err
               /\ vxlanInterfaces' = vxlanInterfaces
               /\ ovsPorts' = ovsPorts
               /\ PortMap' = PortMap ]_vars

\* C11, the case: a remote Close has returned for a connection whose tunnel
\* name never had an entry, while the cache holds the bindings of another
\* connection
C11_ClosedWithoutEntry ==
    \E c \in ConnIDs :
        /\ Path(xcon[c]) = "remote"
        /\ RemoteMech(xcon[c]) = "vxlan"
        /\ pc[c] = "idle"
        /\ status[c] = "closed"
        /\ created[Tunnel(c)] = 0
        /\ PortMap # EmptyMap

\* C12: the key set of the device pool is always the configured set: a Close
\* that carries an address which is free or which the pool does not have
\* adds no entry and changes no entry.
C12_PoolKeysAreConfigured ==
    [][ drv.kind = "pool" =>
            /\ DOMAIN drv'.pciAddresses = drv.configured
            /\ drv'.last.op = "close"
               /\ (~Has(drv.pciAddresses, drv'.last.addr)
                      \/ ~drv.pciAddresses[drv'.last.addr])
               => drv'.pciAddresses = drv.pciAddresses ]_vars

\* the port names the Close step of connection c hands to DeleteLocalOvSConnection
RemovedPorts(c) ==
    IF pc[c] = "rd_ovs" /\ pc'[c] = "rd_iface" THEN {frame[c].port1}
    ELSE IF pc[c] = "ld_ovs" /\ pc'[c] = "ld_src" THEN {frame[c].port1, frame[c].port2}
    ELSE {}

\* C13: removing a port name that has no binding in the port-binding cache is
\* a no-op: the bridge keeps the ports and flows it has (no del-flows and no
\* del-port takes effect for that name) and the cache is unchanged.
C13_RemoveUnboundPortIsNoOp ==
    [][ \A c \in ConnIDs : \A p \in RemovedPorts(c) :
            ~Has(PortMap, p) =>
                /\ p \in ovsPorts => p \in ovsPorts'
                /\ { x \in flows' : x.inp = 0 } = { x \in flows : x.inp = 0 }
                /\ ~Has(PortMap', p) ]_vars

\* C14: when a Request returns an error, at whichever step it failed, the
\* allocation records, the tunnel registry, the original-name registry and
\* the port-binding cache are as they were when the Request started (no
\* other call having run in between).
C14_FailedRequestLeavesNoTrace ==
    \A c \in ConnIDs : trip[c].phase = "failed" => tables = trip[c].tbl

\* C15: every Close returns success to its caller, whichever teardown step
\* fails, and the Close of a remote cross-connect runs its teardown steps to
\* the end (flow and port deletion, interface release, deletion of the
\* allocation record) also when the remote mechanism is not one it knows.
C15_CloseSucceedsAndCompletes ==
    \A c \in ConnIDs :
        reply[c].op = "Close" =>
            /\ ~reply[c].err
            /\ Path(xcon[c]) = "remote" /\ Direction(xcon[c]) # "invalid"
                  => status[c] = "closed"

\* C16: no Close stops before its last step, and when a Close returns the
\* connection has no allocation record, the tunnel reference it held is
\* released, and the devices it looked up have no entry in VfNameMap,
\* whichever earlier teardown step failed.
C16_CloseRunsToTheEnd ==
    [][ \A c \in ConnIDs :
            /\ Path(xcon[c]) = "local" \/ Direction(xcon[c]) # "invalid"
                  => status'[c] # "close failed"
            /\ pc[c] \in {"rd_tunnel", "ld_dst"} /\ pc'[c] = "idle"
                  => /\ \A r \in Roles : ~Has(DevIDMap', DevKey(r, c))
                     /\ tunAcq[c] > 0 => tunAcq'[c] = tunAcq[c] - 1
                     /\ \A d \in {frame[c].dev1, frame[c].dev2} \ {Empty} :
                           ~Has(VfNameMap', d) ]_vars

\* the steps of the Request handlers that follow the first one
Requesting == {"rc_init", "rc_tunnel", "rc_ovs", "rc_iface", "lc_src", "lc_dst", "lc_ovs"}

\* C17: a Request that returns an error returns no cross-connect with it,
\* the refusal of an invalid cross-connect included, and the step of a
\* Request in which a primitive fails is its last: the Request returns the
\* error there.
C17_RequestErrorCarriesNoResult ==
    [][ \A c \in ConnIDs :
            /\ reply'[c].op = "Request" /\ reply'[c].err => ~reply'[c].xcon
            /\ Step(c) /\ pc[c] \in Requesting /\ faults' # faults
                  => /\ pc'[c] = "idle"
                     /\ reply'[c].op = "Request"
                     /\ reply'[c].err ]_vars

\* the step in which a Request of connection c begins
RequestBegins(c) ==
    /\ ops'[c] # ops[c]
    /\ \/ pc'[c] \in {"rc_init", "lc_src"}
       \/ pc'[c] = "idle" /\ status'[c] \in RequestFailures

\* C18: a Request whose cross-connect is not valid returns an error in its
\* first step, before any classification or allocation: the tables, the
\* lock and everything on the host are as before.
C18_InvalidRequestRejectedFirst ==
    [][ \A c \in ConnIDs :
            RequestBegins(c) /\ ~xcon[c].valid =>
                /\ pc'[c] = "idle"
                /\ status'[c] = "invalid"
                /\ reply'[c].err
                /\ tables' = tables
                /\ host' = host
                /\ localRemoteMutex' = localRemoteMutex ]_vars

\* C18, the case: the Request of an invalid cross-connect has just returned,
\* made while another connection held an allocation record and bindings
C18_InvalidRefusedWhileBusy ==
    \E c \in ConnIDs :
        /\ ~xcon[c].valid
        /\ status[c] = "invalid"
        /\ trip[c].phase = "failed"
        /\ trip[c].tbl[1] # EmptyMap
        /\ trip[c].tbl[2] # EmptyMap

\* what the descriptor of connection c says about its two ends
BothKernel(c) == xcon[c].srcM.type = "kernel" /\ xcon[c].dstM.type = "kernel"
OneRemote(c) == xcon[c].srcM.remote # xcon[c].dstM.remote

\* C19: a call is handled by the local path only if both ends use the
\* kernel mechanism and by the remote path only if they do not and exactly
\* one end is remote; a call whose ends do not both use the kernel mechanism
\* and of which both or neither are remote is rejected with an error in its
\* first step and changes nothing.
C19_ExactlyOnePath ==
    [][ \A c \in ConnIDs :
            ops'[c] # ops[c] /\ ~(pc'[c] = "idle" /\ status'[c] = "invalid") =>
                /\ pc'[c] \in {"lc_src", "ld_ovs"} => BothKernel(c)
                /\ pc'[c] \in {"rc_init", "rd_ovs"} => ~BothKernel(c) /\ OneRemote(c)
                /\ BothKernel(c) /\ pc'[c] = "idle"
                      => status'[c] \notin {"invalid type", "close invalid type",
                                            "close failed"}
                /\ ~BothKernel(c) /\ ~OneRemote(c)
                      => /\ pc'[c] = "idle"
                         /\ status'[c] \in {"invalid type", "close invalid type"}
                         /\ reply'[c].op = "Request" => reply'[c].err
                         /\ tables' = tables
                         /\ host' = host
                         /\ localRemoteMutex' = localRemoteMutex ]_vars

\* C19, the case: a Request with both ends remote has just been rejected
\* while another connection held an allocation record and bindings
C19_BothRemoteRejected ==
    \E c \in ConnIDs :
        /\ xcon[c].srcM.remote /\ xcon[c].dstM.remote
        /\ status[c] = "invalid type"
        /\ reply[c].err
        /\ trip[c].phase = "failed"
        /\ trip[c].tbl[1] # EmptyMap
        /\ trip[c].tbl[2] # EmptyMap

\* the devices other than the recorded one are as they were
OthersUntouched(rec) ==
    \A d \in Devices \ {rec} :
        /\ Has(VfNameMap', d) <=> Has(VfNameMap, d)
        /\ linkName'[d] = linkName[d]
        /\ linkLoc'[d] = linkLoc[d]

\* the release of one end came out as it does for the PCI parameter pci
ReleasedAs(rec, role, c, ns, pci) ==
    LET R == releaseInterface(rec, role, c, Conn(pci, ns), 0)
    IN  <<VfNameMap', linkLoc', linkName', veths'>>
            = <<R.VfNameMap, R.linkLoc, R.linkName, R.veths>>

C21_SwitchesArePinned ==
    drv.kind = "ns" =>
        \A t \in Threads :
            drv.threadNs[t] # HostNs =>
                /\ \E c \in ConnIDs :
                      /\ drv.g[c].at # "idle"
                      /\ drv.g[c].m = t
                      /\ LockOSThread(drv.g[c].path)
                /\ Cardinality({ c \in ConnIDs : drv.g[c].at # "idle"
                                                    /\ drv.g[c].m = t }) = 1

\* C22: on every exit path, success or error, of SetupVF, ResetVF and
\* setupLinkInNs, the active network namespace of the calling thread on
\* return is the namespace it had on entry.
C22_NamespaceRestoredOnReturn ==
    [][ drv.kind = "ns" =>
            \A c \in ConnIDs :
                drv.g[c].at # "idle" /\ drv'.g[c].at = "idle" =>
                    /\ drv'.threadNs[drv.g[c].entryM] = drv.g[c].entryNs
                    /\ drv'.threadNs[drv.g[c].m] = drv.g[c].entryNs ]_vars

\* the handler of connection c holds localRemoteMutex during the step
HoldsMutex(c) == localRemoteMutex = c \/ localRemoteMutex' = c

\* C23: no two concurrently executing Request/Close handlers access DevIDMap
\* or PortMap at the same time with at least one of them writing: a step that
\* writes one of these maps while another handler is in flight is taken
\* under the common lock.
C23_MapsWrittenUnderCommonLock ==
    [][ \A c \in ConnIDs :
            /\ Step(c)
            /\ DevIDMap' # DevIDMap \/ PortMap' # PortMap
            /\ pc[Other(c)] # "idle"
            => HoldsMutex(c) ]_vars

\* the devices the handler of connection c has picked and not yet recorded
\* (Request), or has looked up and is releasing (Close)
InHand(c) ==
    IF pc[c] = "idle" THEN {}
    ELSE {frame[c].dev1, frame[c].dev2} \ {Empty}
RequestSteps == {"lc_src", "lc_dst", "lc_ovs", "rc_init", "rc_tunnel", "rc_ovs",
                 "rc_iface"}

\* C24: picking a device and writing its allocation record are atomic as a
\* unit with respect to every other Request and Close: while a Request
\* stands between its pick of a device and its return, no other handler
\* has picked or is releasing that device.
C24_PickAndRecordAtomic ==
    \A c \in ConnIDs :
        pc[c] \in RequestSteps => InHand(c) \cap InHand(Other(c)) = {}

\* the callers between Lock and Unlock
InRegistry == { c \in ConnIDs : drv.call[c].at \in {"read", "port", "count", "unlock"} }

\* C25: createVXLANInterface and deleteVXLANInterface run their
\* read-modify-write of the count together with the creation or deletion of
\* the port under one registry-wide mutex: at most one caller is between Lock
\* and Unlock, under every interleaving the count of a name is the number of
\* calls that took effect (no update is lost), and newVXLAN has run exactly
\* once for a name that has an entry, whose port is on the bridge.
C25_RegistryUnderOneMutex ==
    drv.kind = "registry" =>
        /\ Cardinality(InRegistry) <= 1
        /\ \A c \in InRegistry : drv.mutex = c
        /\ \A t \in TunnelNames :
              /\ Get(vxlanInterfaces, t, 0) = drv.net[t]
              /\ drv.made[t] <= 1
              /\ Has(vxlanInterfaces, t) => drv.made[t] = 1 /\ t \in ovsPorts

\* C25, the case: a caller is about to add to the count of a name that has
\* an entry while the other caller, for the same name, waits for the mutex
C25_SecondCallerWaits ==
    /\ drv.kind = "registry"
    /\ \E c \in ConnIDs :
          /\ drv.call[c].at = "count"
          /\ drv.call[c].op = "create"
          /\ drv.call[Other(c)].at = "lock"
          /\ drv.call[Other(c)].t = drv.call[c].t
          /\ Get(vxlanInterfaces, drv.call[c].t, 0) >= 1

\* the handler of connection c is in a call
InCall(c) == drv.h[c].at # "idle"

\* the handler of connection c is about to take a lock that is held
Blocked(c) ==
    /\ WaitsFor(drv.h[c]) # "none"
    /\ drv.holder[WaitsFor(drv.h[c])] # "free"

\* C26: under any interleaving of concurrent Request and Close calls the
\* locks (device-list lock, localRemoteMutex, vxlanInterfacesMutex) never
\* produce a deadlock, every lock is released on every exit path, and every
\* call eventually returns provided the external primitives return.
C26_LocksReleasedAndCallsReturn ==
    /\ [](drv.kind = "locks" =>
            \* a lock is held by a handler that is in a call
            /\ \A l \in Locks : drv.holder[l] # "free" => InCall(drv.holder[l])
            \* the holder of a lock somebody is blocked on is not blocked
            /\ \A c \in ConnIDs :
                  Blocked(c) => ~Blocked(drv.holder[WaitsFor(drv.h[c])]))
    /\ \A c \in ConnIDs :
          (drv.kind = "locks" /\ InCall(c)) ~> (drv.kind = "locks" /\ ~InCall(c))

\* C26, the case: a call has returned an error while the other handler waits
\* for localRemoteMutex, which is free
C26_ErrorReturnFreesLock ==
    /\ drv.kind = "locks"
    /\ \E c \in ConnIDs :
          /\ drv.h[c].at = "idle"
          /\ drv.h[c].err
          /\ drv.h[Other(c)].at = "localRemoteMutex"
          /\ drv.holder["localRemoteMutex"] = "free"
          /\ drv.faults > 0

\* C27: the port-id lookup after adding a port queries the switch at most 5
\* times; if every query reports id 0 the failure is surfaced as an error to
\* setup, so that no port binding with id 0 is stored and no flow rule
\* referring to port 0 is installed.
C27_ZeroPortIsAnError ==
    drv.kind = "ofport" /\ drv.done =>
        /\ drv.res.queries <= 5
        /\ (\A i \in 1..5 : drv.answers[i] = 0) => drv.res.err /\ drv.aborted
        /\ \A n \in DOMAIN PortMap : PortMap[n] # 0
        /\ \A fw \in flows : fw.inp # 0 /\ fw.out # 0

\* C28: representor discovery with retry budget n >= 1 terminates after at
\* most n device lookups and returns an error when none of them yields
\* exactly one net device; with n = 0 it is rejected with an error before
\* any lookup; a result without error follows a lookup that yielded exactly
\* one net device.
C28_RepresentorRetriesBounded ==
    drv.kind = "rep" /\ drv.done =>
        LET n == drv.maxRetries
        IN  /\ drv.res.lookups <= n
            /\ n = 0 => drv.res.err /\ drv.res.lookups = 0
            /\ (\A i \in 1..n : drv.answers[i] # 1) => drv.res.err
            /\ ~drv.res.err =>
                  /\ drv.res.lookups >= 1
                  /\ drv.answers[drv.res.lookups] = 1
                  /\ drv.res.rep # Empty

\* C28, the case: a budget of at least two used up by lookups none of which
\* yielded exactly one net device, the call having returned an error
C28_BudgetUsedUp ==
    /\ drv.kind = "rep"
    /\ drv.done
    /\ drv.maxRetries >= 2
    /\ drv.res.lookups = drv.maxRetries
    /\ \A i \in 1..drv.maxRetries : drv.answers[i] \in {0, 2}
    /\ drv.res.err

\* C29: after every completed setup or teardown operation a port name has an
\* entry in the port-binding cache if and only if that port was added to the
\* switch by the forwarder and has not been deleted since; in particular a
\* port that was added but whose flow installation failed has a binding.
C29_BindingIffPortOnSwitch ==
    (\A c \in ConnIDs : pc[c] = "idle") =>
        \A n \in AllPortNames : Has(PortMap, n) <=> n \in ovsPorts

\* a local cross-connect whose two endpoints carry no candidate devices
VethOnly(c) ==
    /\ IsValid(xcon[c])
    /\ Path(xcon[c]) = "local"
    /\ xcon[c].srcC = <<>> /\ xcon[c].dstC = <<>>
\* the device pool and the tunnel registry
PoolAndRegistry ==
    <<linkLoc, linkName, VfNameMap, Allocations, vxlanInterfaces, created,
      ovsPorts \cap ({ Rep(d) : d \in Devices } \cup TunnelNames)>>
\* the two flow rules between the ports of connection c
SymmetricFlows(c) ==
    LET sp == OfPort(VethPort("src", c))
        dp == OfPort(VethPort("dst", c))
    IN  {Flow(sp, 0, 0, dp), Flow(dp, 0, 0, sp)}
\* the flow rules that match on a port of connection c
FlowsOf(fl, c) ==
    { x \in fl : x.inp \in {OfPort(VethPort("src", c)), OfPort(VethPort("dst", c))} }

C31_AttachDetachRestoresName ==
    /\ \A d \in Devices : Has(VfNameMap, d) => VfNameMap[d] = OrigName(d)
    /\ \A d \in Devices :
          ~Has(VfNameMap, d) /\ linkLoc[d] = HostNs => linkName[d] = OrigName(d)

\* the release step of Close for the end of c that the recorded device rec
\* was given to, in pod namespace ns
ReleaseStep(c, rec, ns) ==
    \/ /\ pc[c] = "ld_src" /\ pc'[c] = "ld_dst"
       /\ rec = frame[c].dev1 /\ ns = xcon[c].srcNs
    \/ /\ pc[c] = "ld_dst" /\ pc'[c] = "idle"
       /\ rec = frame[c].dev2 /\ ns = xcon[c].dstNs
    \/ /\ pc[c] = "rd_iface" /\ pc'[c] = "rd_tunnel"
       /\ rec = frame[c].dev1 /\ ns = LocalNs(xcon[c])

LocalPort(c) ==
    LET dev == Get(DevIDMap, DevKey("rem", c), Empty)
    IN  IF dev # Empty THEN Rep(dev) ELSE VethPort("rem", c)
\* the two flows of remote connection c: from its local port into the tunnel
\* with its VNI set, and from the tunnel port matching its VNI
FlowPair(c) ==
    {Flow(OfPort(LocalPort(c)), 0, Vni(c), OfPort(Tunnel(c))),
     Flow(OfPort(Tunnel(c)), Vni(c), 0, OfPort(LocalPort(c)))}
\* c and o are connected remote connections on one tunnel, o is at rest
SharedTunnel(c, o) ==
    /\ c # o
    /\ Path(xcon[c]) = "remote" /\ Path(xcon[o]) = "remote"
    /\ status[c] = "connected" /\ status[o] = "connected"
    /\ pc[o] = "idle"
    /\ Tunnel(c) = Tunnel(o)
    /\ Vni(c) # Vni(o)

\* C33: for two connected remote connections that share one tunnel and use
\* different VNIs, Close of one, no step of it failing, removes only that
\* connection's flow pair and its local port; the other connection's two flows, its local port, the
\* tunnel port and the binding of the tunnel port stay in place.
C33_CloseLeavesTheOtherConnection ==
    [][ \A c, o \in ConnIDs :
            SharedTunnel(c, o) /\ faults' = faults =>
                /\ (pc[c] = "rd_ovs" /\ pc'[c] = "rd_iface"
                      /\ frame[c].port1 = LocalPort(c)) =>
                      /\ flows' = flows \ FlowPair(c)
                      /\ ovsPorts' = ovsPorts \ {LocalPort(c)}
                      /\ FlowPair(o) \subseteq flows'
                      /\ LocalPort(o) \in ovsPorts'
                      /\ Has(PortMap', LocalPort(o))
                /\ pc[c] \in {"rd_ovs", "rd_iface", "rd_tunnel"} /\ Step(c) =>
                      /\ Tunnel(o) \in ovsPorts'
                      /\ Get(PortMap', Tunnel(o), 0) = OfPort(Tunnel(o))
                /\ pc[c] \in {"rd_iface", "rd_tunnel"} /\ Step(c) =>
                      /\ flows' = flows
                      /\ ovsPorts' = ovsPorts ]_vars

\* C34: within a single local Request whose source and destination candidate
\* lists overlap, the source side and the destination side are never given
\* the same device identifier.
C34_TwoSidesTwoDevices ==
    \A c \in ConnIDs :
        pc[c] \in {"lc_src", "lc_dst", "lc_ovs"} /\ frame[c].dev1 # Empty
            => frame[c].dev1 # frame[c].dev2

\* the device createLocalConnection / createRemoteConnection of c picked for
\* the role (Empty: the side is wired with a veth pair, or c has no such side)
Allocated(c, role) ==
    IF Path(xcon[c]) = "local"
    THEN IF role = "src" THEN frame[c].dev1
         ELSE IF role = "dst" THEN frame[c].dev2 ELSE Empty
    ELSE IF role = "rem" THEN frame[c].dev1 ELSE Empty

\* C35: after a successful Request, DevIDMap contains an allocation record
\* for a role (src-<id>, dst-<id>, rem-<id>) if and only if a device was
\* actually allocated for that role; a side wired with a veth pair has no
\* record.
C35_RecordIffDeviceAllocated ==
    [][ \A c \in ConnIDs :
            pc[c] \in {"lc_ovs", "rc_iface"} /\ pc'[c] = "idle"
            /\ status'[c] = "connected" /\ ~Has(DevIDMap, DevKey("src", c))
            /\ ~Has(DevIDMap, DevKey("dst", c)) /\ ~Has(DevIDMap, DevKey("rem", c))
            => \A role \in Roles :
                  Has(DevIDMap', DevKey(role, c)) <=> Allocated(c, role) # Empty ]_vars

\* the device state that SetupVF acts on
DeviceState == <<VfNameMap, linkLoc, linkName>>
\* the outcomes of a Request that only PickDeviceAndNetRep produces
PickerErrors == {"none available", "lookup failed"}

\* C36: when no candidate device list is present in an endpoint's mechanism
\* parameters, Request never calls the device picker for that endpoint and
\* wires it with a veth pair; the picker is called exactly for the endpoints
\* that carry a candidate list: a Request that gets past its picks holds a
\* device for exactly those endpoints, the one the picker returns for their
\* list; a Request fails with a picker error only when an endpoint carries
\* a list; and the set-up of an endpoint without a list makes its veth pair
\* and leaves the devices alone.
C36_PickerOnlyForCandidateLists ==
    [][ \A c \in ConnIDs :
            /\ pc[c] = "idle" /\ pc'[c] = "lc_src" =>
                  /\ frame'[c].dev1 # Empty <=> xcon[c].srcC # <<>>
                  /\ frame'[c].dev2 # Empty <=> xcon[c].dstC # <<>>
                  /\ xcon[c].srcC # <<>> =>
                        frame'[c].dev1 = PickDeviceAndNetRep(xcon[c].srcC, ovsPorts, 0).dev
                  /\ xcon[c].dstC # <<>> =>
                        frame'[c].dev2 = PickDeviceAndNetRep(xcon[c].dstC, ovsPorts, 0).dev
            /\ pc[c] = "idle" /\ pc'[c] = "rc_init" =>
                  /\ frame'[c].dev1 # Empty <=> LocalC(xcon[c]) # <<>>
                  /\ LocalC(xcon[c]) # <<>> =>
                        frame'[c].dev1 = PickDeviceAndNetRep(LocalC(xcon[c]), ovsPorts, 0).dev
            /\ pc[c] = "idle" /\ ops'[c] # ops[c] /\ status'[c] \in PickerErrors =>
                  IF Path(xcon[c]) = "local"
                  THEN xcon[c].srcC # <<>> \/ xcon[c].dstC # <<>>
                  ELSE LocalC(xcon[c]) # <<>>
            /\ pc[c] = "lc_src" /\ pc'[c] = "lc_dst" /\ xcon[c].srcC = <<>> =>
                  /\ veths[VethPort("src", c)] = "none"
                  /\ veths'[VethPort("src", c)] = "pod"
                  /\ DeviceState' = DeviceState
            /\ pc[c] = "lc_dst" /\ pc'[c] = "lc_ovs" /\ xcon[c].dstC = <<>> =>
                  /\ veths[VethPort("dst", c)] = "none"
                  /\ veths'[VethPort("dst", c)] = "pod"
                  /\ DeviceState' = DeviceState
            /\ pc[c] = "rc_init" /\ pc'[c] = "rc_tunnel" /\ LocalC(xcon[c]) = <<>> =>
                  /\ veths[VethPort("rem", c)] = "none"
                  /\ veths'[VethPort("rem", c)] = "host"
                  /\ DeviceState' = DeviceState
            /\ (pc[c] = "rc_iface" /\ pc'[c] = "idle" /\ status'[c] = "connected"
                  /\ LocalC(xcon[c]) = <<>>) =>
                  /\ veths'[VethPort("rem", c)] = "pod"
                  /\ DeviceState' = DeviceState ]_vars

\* C36, the case: a remote Request whose local endpoint carries no list has
\* returned success with its veth pair in the pod, while the Request of the
\* other connection, which carries a list, holds a picked device
C36_VethBesideDevice ==
    \E c \in ConnIDs :
        /\ Path(xcon[c]) = "remote" /\ LocalC(xcon[c]) = <<>>
        /\ pc[c] = "idle" /\ status[c] = "connected"
        /\ veths[VethPort("rem", c)] = "pod"
        /\ ~Has(VfNameMap, "d1") /\ ~Has(VfNameMap, "d2")
        /\ pc[Other(c)] = "rc_init"
        /\ LocalC(xcon[Other(c)]) # <<>>
        /\ frame[Other(c)].dev1 # Empty

\* the step of the Request of c that runs SetupVF for device d, to be the
\* end role of c in pod namespace ns
AttachStep(c, d, role, ns) ==
    \/ /\ pc[c] = "lc_src" /\ role = "src"
       /\ d = frame[c].dev1 /\ ns = xcon[c].srcNs
    \/ /\ pc[c] = "lc_dst" /\ role = "dst"
       /\ d = frame[c].dev2 /\ ns = xcon[c].dstNs
    \/ /\ pc[c] = "rc_iface" /\ role = "rem"
       /\ d = frame[c].dev1 /\ ns = LocalNs(xcon[c])

\* C37: if a step of Attach (SetupVF) after the move into the target
\* namespace fails (entering the namespace, adding the address, renaming,
\* bringing the link up), Attach returns the error, performs no further
\* step, leaves the device in the target namespace and keeps the
\* original-name record written before the move: the Request returns
\* "failed", the link is in the target namespace, VfNameMap holds the name
\* the link had, the link has that name still or (only the last step having
\* failed) the connection's name, and no other device, no allocation record
\* and nothing on the bridge has changed.
C37_FailureAfterMoveLeavesDevice ==
    [][ \A c \in ConnIDs, d \in Devices, role \in Roles, ns \in Namespaces :
            /\ (AttachStep(c, d, role, ns) /\ Step(c) /\ faults' # faults
                  /\ linkLoc[d] # ns /\ linkLoc'[d] = ns)
               => /\ pc'[c] = "idle" /\ status'[c] = "failed" /\ reply'[c].err
                  /\ VfNameMap' = Put(VfNameMap, d, linkName[d])
                  /\ linkLoc' = [linkLoc EXCEPT ![d] = ns]
                  /\ \/ linkName' = linkName
                     \/ linkName' = [linkName EXCEPT ![d] = IfName(role, c)]
                  /\ DevIDMap' = DevIDMap
                  /\ <<ovsPorts', flows', PortMap', veths'>>
                         = <<ovsPorts, flows, PortMap, veths>>
            \* what SetupVF gives back when it fails before the rename (3)
            \* and after it (4), the link being found and the pod alive
            /\ (AttachStep(c, d, role, ns) /\ ns \in nsAlive
                  /\ linkLoc[d] \in {HostNs, ns})
               => \A f \in 3..4 :
                     LET R == SetupVF(d, IfName(role, c), ns, f)
                     IN  /\ R.err
                         /\ R.VfNameMap = Put(VfNameMap, d, linkName[d])
                         /\ R.linkLoc = [linkLoc EXCEPT ![d] = ns]
                         /\ R.linkName = IF f = 3 THEN linkName
                                         ELSE [linkName EXCEPT ![d] = IfName(role, c)]
      ]_vars

\* C37, the case: a Request has failed in SetupVF after the move and before
\* the rename, and the device is in the pod namespace under its own name,
\* its name recorded
C37_LeftInTargetNamespace ==
    \E c \in ConnIDs, d \in Devices :
        /\ pc[c] = "idle" /\ status[c] = "failed"
        /\ faults = 1
        /\ linkLoc[d] \in Namespaces
        /\ linkName[d] = OrigName(d)
        /\ Has(VfNameMap, d) /\ VfNameMap[d] = OrigName(d)
        /\ ~Has(DevIDMap, DevKey("src", c))
        /\ ~Has(DevIDMap, DevKey("rem", c))

\* the tunnel registry, the bridge's ports and the port bindings
TunnelState == <<vxlanInterfaces, ovsPorts, PortMap, created>>

\* C38: if creating the tunnel port on the switch fails, tunnel Acquire
\* (createVXLANInterface) returns an error and leaves the registry unchanged
\* (no entry inserted, no count incremented); if deleting the tunnel port
\* fails when the count is 1, Release (deleteVXLANInterface) returns an
\* error and leaves the entry at count 1 and the tunnel's port binding in
\* place.
C38_FailedTunnelStepChangesNothing ==
    [][ \A c \in ConnIDs :
            /\ pc[c] = "rc_tunnel" /\ Step(c) /\ faults' # faults =>
                  /\ ~Has(vxlanInterfaces, Tunnel(c))
                  /\ TunnelState' = TunnelState
                  /\ tunAcq' = tunAcq
                  /\ status'[c] = "failed" /\ reply'[c].err
            /\ pc[c] = "rc_tunnel" /\ ~Has(vxlanInterfaces, Tunnel(c)) =>
                  LET R == createVXLANInterface(Tunnel(c), TRUE)
                  IN  /\ R.err
                      /\ R.vxlanInterfaces = vxlanInterfaces
                      /\ R.ovsPorts = ovsPorts
            /\ pc[c] = "rd_tunnel" /\ Step(c) /\ faults' # faults =>
                  /\ Get(vxlanInterfaces, Tunnel(c), 0) = 1
                  /\ TunnelState' = TunnelState
                  /\ tunAcq' = tunAcq
            /\ pc[c] = "rd_tunnel" /\ Get(vxlanInterfaces, Tunnel(c), 0) = 1 =>
                  LET R == deleteVXLANInterface(Tunnel(c), TRUE)
                  IN  /\ R.err
                      /\ R.vxlanInterfaces = vxlanInterfaces
                      /\ R.vxlanInterfaces[Tunnel(c)] = 1
                      /\ R.ovsPorts = ovsPorts
                      /\ R.PortMap = PortMap ]_vars

\* C38, the case: the Close of the only connection on a tunnel has returned,
\* its del-port having failed: the entry still counts 1, the tunnel port is
\* on the bridge and bound
C38_TunnelKeptAfterFailedDelete ==
    \E c \in ConnIDs :
        /\ pc[c] = "idle" /\ status[c] = "closed"
        /\ faults = 1
        /\ tunAcq[c] = 1 /\ tunAcq[Other(c)] = 0
        /\ Get(vxlanInterfaces, Tunnel(c), 0) = 1
        /\ Tunnel(c) \in ovsPorts
        /\ Get(PortMap, Tunnel(c), 0) = OfPort(Tunnel(c))

\* C39: the tunnel port name derived from a remote peer IP (the letter v
\* followed by the IP text with its dots removed) is injective over IPv4
\* addresses: two different remote peers never map to the same tunnel name
\* and therefore never share a registry entry or reference count.
C39_TunnelNameInjective ==
    \A c, o \in ConnIDs :
        xcon[c].peer # xcon[o].peer /\ tunAcq[c] = 1 /\ tunAcq[o] = 1 =>
            /\ Tunnel(c) # Tunnel(o)
            /\ Get(vxlanInterfaces, Tunnel(c), 0) = 1
            /\ Get(vxlanInterfaces, Tunnel(o), 0) = 1

\* the handler of connection c is in the body of connectOrDisconnect, past
\* the statement that takes the device-list lock
InBody(c) == drv.h[c].at \notin {"idle", "devices"}

\* C40: when metrics are enabled, connectOrDisconnect holds the monitoring
\* device-list lock for its whole body, so the bodies of any two Request /
\* Close calls are mutually exclusive (no interleaving of their steps is
\* reachable); the lock is released on every return path, including the
\* failure of the sanity check.
C40_BodiesExcludeEachOther ==
    [][ drv.kind = "locks" /\ drv.metrics =>
            /\ \A c \in ConnIDs : InBody(c) => drv.holder["devices"] = c
            /\ ~(InBody("c1") /\ InBody("c2"))
            /\ \A c \in ConnIDs : ~InCall(c) => drv.holder["devices"] # c
            \* a step inside a body is taken while the other call is outside
            /\ \A c \in ConnIDs :
                  InBody(c) /\ drv'.h[c] # drv.h[c] =>
                      /\ ~InBody(Other(c))
                      /\ drv'.h[Other(c)] = drv.h[Other(c)]
            \* the return of a call, with or without an error, frees the lock
            /\ \A c \in ConnIDs :
                  InBody(c) /\ drv'.h[c].at = "idle" =>
                      drv'.holder["devices"] = "free" ]_vars

\* C40, the case: with metrics enabled a call has returned an error, its
\* connection has called again and holds the device-list lock in the body,
\* and the call of the other connection waits for the lock
C40_SecondCallWaitsOutside ==
    /\ drv.kind = "locks" /\ drv.metrics
    /\ drv.faults = 1 /\ drv.calls = 3
    /\ \E c \in ConnIDs :
          /\ drv.h[c].at = "sanity"
          /\ drv.holder["devices"] = c
          /\ drv.h[Other(c)].at = "devices"

====
